---- MODULE Spec2Model ----
(***************************************************************************)
(* Entity cache of the router: the subgraph-side middleware of             *)
(* apollo-router/src/plugins/cache/entity.rs (InnerCacheService) together  *)
(* with the collaborators it consumes (CacheControl, the Redis store, the  *)
(* invalidation engine).                                                   *)
(* With it, of query_planner/dual_query_planner.rs: the queue of           *)
(* comparison jobs and the comparison of two operation documents.          *)
(*                                                                         *)
(* Strings built with format!/write! are modelled as sequences of          *)
(* segments (the pieces between ':'), every segment a sequence of strings, *)
(* so that appending a suffix twice is visible.  A SHA-256 digest is the   *)
(* tagged sequence of the bytes fed to it (an injective hash).             *)
(***************************************************************************)
EXTENDS Integers, Sequences, FiniteSets, TLC

\* ------------------------------------------------------------------ bounds
\* requests accepted in all, by each specification: the concurrent one, the
\* serial one, the one over malformed and batched requests, the one with
\* invalidations, the one with a failing store and headers that do not
\* parse, the one following the CacheControl of the Context, the one
\* counting hits and misses, the one with stray errors, the one with two
\* users, and the one following the lock of the registry
MaxCalls == 2
MaxSerialCalls == 3
MaxEdgeCalls == 2
MaxInvalidationCalls == 3
MaxFaultCalls == 2
MaxAggregationCalls == 3
MaxMetricsCalls == 2
MaxMergingCalls == 2
MaxIsolationCalls == 2
MaxLockCalls == 2
\* comparison jobs scheduled in all
MaxJobs == 13
\* selections under one field
MaxSelections == 2
\* representations of a request, seconds of a max-age, write-back tasks waiting
MaxReprs == 2
MaxAge == 1
MaxPending == 1

\* ------------------------------------------------------------------ basics
None == <<>>
Some(x) == <<x>>
IsSome(o) == Len(o) = 1
Unwrap(o) == o[1]

Min(a, b) == IF a <= b THEN a ELSE b
Max(a, b) == IF a >= b THEN a ELSE b

\* the requests served concurrently (one InnerCacheService::call_inner each)
Reqs == {1, 2}

ENTITIES == "_entities"
REPRESENTATIONS == "representations"
TYPENAME == "__typename"

\* ------------------------------------------------------------------ JSON objects
\* serde_json_bytes::Map::remove / insert on an object (a function on keys)
RemoveKey(o, k) == [x \in DOMAIN o \ {k} |-> o[x]]
InsertKey(o, k, v) == [x \in DOMAIN o \cup {k} |-> IF x = k THEN v ELSE o[x]]

\* ------------------------------------------------------------------ CacheControl
\* super::cache_control::CacheControl
CacheControlDefault ==
    [no_store |-> FALSE, private |-> FALSE, must_revalidate |-> FALSE,
     max_age |-> None, s_maxage |-> None, stale_while_revalidate |-> None, age |-> 0]

\* CacheControl::no_store()
CacheControlNoStore == [CacheControlDefault EXCEPT !.no_store = TRUE]

MinOpt(a, b) ==
    IF ~IsSome(a) THEN b
    ELSE IF ~IsSome(b) THEN a
    ELSE Some(Min(Unwrap(a), Unwrap(b)))

\* CacheControl::new(headers, default_ttl): the parsed directives, the
\* max-age falling back on the backend ttl
CacheControlNew(h, default_ttl) ==
    [no_store |-> h.no_store, private |-> h.private, must_revalidate |-> FALSE,
     max_age |-> IF IsSome(h.max_age) THEN h.max_age ELSE default_ttl,
     s_maxage |-> None, stale_while_revalidate |-> None, age |-> 0]

\* CacheControl::merge
Merge(a, b) ==
    [no_store |-> a.no_store \/ b.no_store,
     private |-> a.private \/ b.private,
     must_revalidate |-> a.must_revalidate \/ b.must_revalidate,
     max_age |-> MinOpt(a.max_age, b.max_age),
     s_maxage |-> MinOpt(a.s_maxage, b.s_maxage),
     stale_while_revalidate |-> MinOpt(a.stale_while_revalidate, b.stale_while_revalidate),
     age |-> Max(a.age, b.age)]

EffectiveMaxAge(cc) == IF IsSome(cc.s_maxage) THEN cc.s_maxage ELSE cc.max_age

\* CacheControl::ttl
Ttl(cc) ==
    IF IsSome(EffectiveMaxAge(cc))
    THEN Some(Max(Unwrap(EffectiveMaxAge(cc)) - cc.age, 0))
    ELSE None

ShouldStore(cc) == ~cc.no_store
CanUse(cc) == IsSome(EffectiveMaxAge(cc)) => cc.age < Unwrap(EffectiveMaxAge(cc))
IsPrivate(cc) == cc.private

\* ------------------------------------------------------------------ JSON values
\* serde_json_bytes::Value, tagged by its kind
Null == [kind |-> "null"]
Str(s) == [kind |-> "string", s |-> s]
\* a number, kept as its decimal text
Num(n) == [kind |-> "number", n |-> n]
Arr(items) == [kind |-> "array", items |-> items]
Obj(fields) == [kind |-> "object", fields |-> fields]

IsObject(v) == v.kind = "object"
IsArray(v) == v.kind = "array"
\* Value::as_str().unwrap_or("-")
AsStrOr(v, dflt) == IF v.kind = "string" THEN v.s ELSE dflt

\* every object key of the model, in the serializer's (sorted) order
KeyOrder ==
    <<"__typename", "_entities", "all", "first", "id", "representations", "root", "ver">>

RECURSIVE Flatten(_)
Flatten(ss) == IF ss = <<>> THEN <<>> ELSE Head(ss) \o Flatten(Tail(ss))

\* serde_json::to_vec / to_string of a value: the token sequence
RECURSIVE Json(_)
Json(v) ==
    IF v.kind = "null" THEN <<"null">>
    ELSE IF v.kind = "string" THEN <<"\"", v.s, "\"">>
    ELSE IF v.kind = "number" THEN <<v.n>>
    ELSE IF v.kind = "array"
    THEN <<"[">> \o Flatten([i \in 1..Len(v.items) |-> Json(v.items[i])]) \o <<"]">>
    ELSE <<"{">>
         \o Flatten([i \in 1..Len(KeyOrder) |->
                       IF KeyOrder[i] \in DOMAIN v.fields
                       THEN <<KeyOrder[i], ":">> \o Json(v.fields[KeyOrder[i]])
                       ELSE <<>>])
         \o <<"}">>

\* hex::encode(Sha256::digest(bytes))
Sha256(bytes) == <<"sha256">> \o bytes

\* ------------------------------------------------------------------ configuration
\* InnerCacheService.name: the subgraphs behind the cache
Subgraphs == {"inventory"}
\* InnerCacheService.entity_type (the schema's query type name)
entity_type_opt == None
\* InnerCacheService.private_id: the context key holding the user id
private_id_key == Some("user")
\* RedisCacheStorage.ttl, the backend-wide fallback
storage_ttl == Some(MaxAge)
\* InnerCacheService.subgraph_ttl
subgraph_ttl == Some(MaxAge)

\* ------------------------------------------------------------------ keys
\* variant: a context without user id gets the hash of the empty string
get_private_id_of_nobody(context) ==
    IF IsSome(private_id_key)
       /\ Unwrap(private_id_key) \in DOMAIN context
       /\ context[Unwrap(private_id_key)].kind = "string"
    THEN Some(Sha256(<<context[Unwrap(private_id_key)].s>>))
    ELSE Some(Sha256(<<"">>))

\* get_private_id: the hashed user id found in the request context
get_private_id(context) ==
    IF IsSome(private_id_key)
       /\ Unwrap(private_id_key) \in DOMAIN context
       /\ context[Unwrap(private_id_key)].kind = "string"
    THEN Some(Sha256(<<context[Unwrap(private_id_key)].s>>))
    ELSE None

hash_query(query_hash, body) ==
    Sha256(<<query_hash, "0",
             IF IsSome(body.operation_name) THEN Unwrap(body.operation_name) ELSE "-",
             "0">>)

CONTEXT_CACHE_KEY == "apollo_entity_cache::key"

\* variant: the representations variable is hashed with the other variables
hash_additional_data_all_variables(body, context, cache_key) ==
    Sha256(Json(Obj(body.variables)) \o cache_key)

hash_additional_data(body, context, cache_key) ==
    LET variables == RemoveKey(body.variables, REPRESENTATIONS)
        cache_data == IF CONTEXT_CACHE_KEY \in DOMAIN context
                         /\ IsObject(context[CONTEXT_CACHE_KEY])
                      THEN Some(context[CONTEXT_CACHE_KEY].fields) ELSE None
        all_part == IF IsSome(cache_data) /\ "all" \in DOMAIN Unwrap(cache_data)
                    THEN Json(Unwrap(cache_data)["all"]) ELSE <<>>
        op_part == IF IsSome(cache_data) /\ IsSome(body.operation_name)
                      /\ Unwrap(body.operation_name) \in DOMAIN Unwrap(cache_data)
                   THEN Json(Unwrap(cache_data)[Unwrap(body.operation_name)]) ELSE <<>>
    IN  Sha256(Json(Obj(variables)) \o cache_key \o all_part \o op_part)

\* variant: the user id is left out of the key
WithSuffixDropped(key, id) == key

\* format!("{key}:{id}")
WithSuffix(key, id) == Append(key, id)

extract_cache_key_root(subgraph_name, entity_type, query_hash, body, context, cache_key, is_known_private, private_id) ==
    LET qh == hash_query(query_hash, body)
        additional_data_hash == hash_additional_data(body, context, cache_key)
        ty == IF IsSome(entity_type) THEN Unwrap(entity_type) ELSE "Query"
        key == << <<"subgraph">>, <<subgraph_name>>, <<"type">>, <<ty>>,
                  <<"hash">>, qh, <<"data">>, additional_data_hash >>
    IN  IF is_known_private /\ IsSome(private_id)
        THEN WithSuffix(key, Unwrap(private_id))
        ELSE key

\* variant: an object without __typename is keyed under the type "-"
EntityKeyLenient(subgraph_name, qh, additional_data_hash, representation, is_known_private, private_id) ==
    IF ~IsObject(representation)
    THEN None
    ELSE LET typename == IF TYPENAME \in DOMAIN representation.fields
                         THEN AsStrOr(representation.fields[TYPENAME], "-") ELSE "-"
             stripped == Obj(RemoveKey(representation.fields, TYPENAME))
             key == << <<"subgraph">>, <<subgraph_name>>, <<typename>>,
                       Sha256(Json(stripped)), qh, additional_data_hash >>
         IN  Some(IF is_known_private /\ IsSome(private_id)
                  THEN WithSuffix(key, Unwrap(private_id))
                  ELSE key)

\* extract_cache_keys, for one representation: its key, or None for the
\* MalformedRequest error "missing __typename in representation"
EntityKey(subgraph_name, qh, additional_data_hash, representation, is_known_private, private_id) ==
    IF ~(IsObject(representation) /\ TYPENAME \in DOMAIN representation.fields)
    THEN None
    ELSE LET opt_type == representation.fields[TYPENAME]
             typename == AsStrOr(opt_type, "-")
             stripped == Obj(RemoveKey(representation.fields, TYPENAME))
             hashed_entity_key == Sha256(Json(stripped))
             key == << <<"subgraph">>, <<subgraph_name>>, <<typename>>,
                       hashed_entity_key, qh, additional_data_hash >>
         IN  Some(IF is_known_private /\ IsSome(private_id)
                  THEN WithSuffix(key, Unwrap(private_id))
                  ELSE key)

\* extract_cache_keys: Ok(keys), or the MalformedRequest error
extract_cache_keys(subgraph_name, query_hash, body, context, cache_key, is_known_private, private_id) ==
    LET qh == hash_query(query_hash, body)
        additional_data_hash == hash_additional_data(body, context, cache_key)
        representations == body.variables[REPRESENTATIONS].items
        res == [i \in 1..Len(representations) |->
                  EntityKey(subgraph_name, qh, additional_data_hash, representations[i],
                            is_known_private, private_id)]
    IN  IF \E i \in 1..Len(res) : ~IsSome(res[i])
        THEN [ok |-> FALSE, keys |-> <<>>]
        ELSE [ok |-> TRUE, keys |-> [i \in 1..Len(res) |-> Unwrap(res[i])]]

\* ------------------------------------------------------------------ entity path
\* variant: the representation is forwarded without its __typename
RestoredNot(removed, opt_type) == removed

\* representation.as_object_mut().map(|o| o.insert(TYPENAME, opt_type))
Restored(removed, opt_type) == Obj(InsertKey(removed.fields, TYPENAME, opt_type))

\* variant: only the first hit's control is kept
MergedControlFirst(cache_control, entry) ==
    IF IsSome(cache_control) THEN cache_control ELSE Some(entry.control)

\* the running cache_control of filter_representations, given one more hit
MergedControl(cache_control, entry) ==
    IF IsSome(cache_control)
    THEN Some(Merge(Unwrap(cache_control), entry.control))
    ELSE Some(entry.control)

\* filter_representations, after the first n representations (the zip stops at
\* the shortest of representations, keys and cache_result)
RECURSIVE FilterLoop(_, _, _, _)
FilterLoop(representations, keys, cache_result, n) ==
    IF n = 0
    THEN [ok |-> TRUE, new_representations |-> <<>>, result |-> <<>>,
          cache_control |-> None, hit |-> <<>>, miss |-> <<>>]
    ELSE LET acc == FilterLoop(representations, keys, cache_result, n - 1)
             representation == representations[n]
         IN  IF ~acc.ok THEN acc
             ELSE IF ~(IsObject(representation) /\ TYPENAME \in DOMAIN representation.fields)
             THEN [acc EXCEPT !.ok = FALSE]
             ELSE LET opt_type == representation.fields[TYPENAME]
                      removed == Obj(RemoveKey(representation.fields, TYPENAME))
                      typename == AsStrOr(opt_type, "-")
                      \* do not use that cache entry if it is stale
                      cache_entry == IF IsSome(cache_result[n])
                                        /\ ~CanUse(Unwrap(cache_result[n]).control)
                                     THEN None ELSE cache_result[n]
                      item == [key |-> keys[n], typename |-> typename,
                               cache_entry |-> cache_entry]
                  IN  IF ~IsSome(cache_entry)
                      THEN [acc EXCEPT
                              !.miss = Append(@, typename),
                              !.new_representations = Append(@, Restored(removed, opt_type)),
                              !.result = Append(@, item)]
                      ELSE [acc EXCEPT
                              !.hit = Append(@, typename),
                              !.cache_control = MergedControl(@, Unwrap(cache_entry)),
                              !.result = Append(@, item)]

filter_representations(representations, keys, cache_result) ==
    FilterLoop(representations, keys, cache_result,
               Min(Len(representations), Min(Len(keys), Len(cache_result))))

\* a path element: PathElement::Key(name) or PathElement::Index(i)
PKey(name) == [key |-> name]
PIndex(i) == [index |-> i]

\* Path::starts_with(["_entities", entity_idx])
PointsAt(error, entity_idx) ==
    /\ IsSome(error.path)
    /\ Len(Unwrap(error.path)) >= 2
    /\ Unwrap(error.path)[1] = PKey(ENTITIES)
    /\ Unwrap(error.path)[2] = PIndex(entity_idx)

\* variant: the error keeps the index it had in the upstream response
ReindexedNot(error, new_entity_idx) == error

\* the error with path.0[1] = PathElement::Index(new_entity_idx)
Reindexed(error, new_entity_idx) ==
    [error EXCEPT !.path = Some([Unwrap(@) EXCEPT ![2] = PIndex(new_entity_idx)])]

\* variant: the iterator over the upstream entities is never advanced
NextEntityFirst(entities, taken) == entities[1]

\* entities_it.next(): the upstream entity consumed after `taken` others
NextEntity(entities, taken) == entities[taken + 1]

\* variant: should_store() is not consulted
ShouldInsertAnyControl(has_errors, cache_control, should_cache_private) ==
    ~has_errors /\ should_cache_private

\* whether a fetched entity goes to to_insert
ShouldInsert(has_errors, cache_control, should_cache_private) ==
    ~has_errors /\ ShouldStore(cache_control) /\ should_cache_private

SelectErrors(errors, entity_idx) == SelectSeq(errors, LAMBDA e : PointsAt(e, entity_idx))

\* variant: a miss the subgraph gave no entity for is left out of the result
NoMoreEntitiesSkips(acc) == acc

\* entities_it.next().ok_or_else(MalformedResponse "invalid number of
\* entities")?: the loop, and the function, end with the error
NoMoreEntities(acc) == [acc EXCEPT !.ok = FALSE]

\* insert_entities_in_result, after the first n intermediate results; `taken`
\* is the number of upstream entities consumed from entities_it
RECURSIVE InsertLoop(_, _, _, _, _, _, _)
InsertLoop(entities, errors, cache_control, result, update_key_private, should_cache_private, n) ==
    IF n = 0
    THEN [ok |-> TRUE, new_entities |-> <<>>, new_errors |-> <<>>,
          to_insert |-> <<>>, taken |-> 0]
    ELSE LET acc == InsertLoop(entities, errors, cache_control, result,
                               update_key_private, should_cache_private, n - 1)
             item == result[n]
             new_entity_idx == n - 1
         IN  IF ~acc.ok THEN acc
             ELSE IF IsSome(item.cache_entry)
             THEN [acc EXCEPT !.new_entities = Append(@, Unwrap(item.cache_entry).data)]
             ELSE IF acc.taken >= Len(entities)
             THEN NoMoreEntities(acc)
             ELSE LET entity_idx == acc.taken
                      value == NextEntity(entities, acc.taken)
                      key == IF IsSome(update_key_private)
                             THEN WithSuffix(item.key, Unwrap(update_key_private))
                             ELSE item.key
                      mine == SelectErrors(errors, entity_idx)
                      has_errors == mine # <<>>
                      moved == [i \in 1..Len(mine) |-> Reindexed(mine[i], new_entity_idx)]
                  IN  [acc EXCEPT
                         !.taken = @ + 1,
                         !.new_errors = @ \o moved,
                         !.to_insert =
                             IF ShouldInsert(has_errors, cache_control, should_cache_private)
                             THEN Append(@, [key |-> key, control |-> cache_control,
                                             data |-> value, idx |-> new_entity_idx])
                             ELSE @,
                         !.new_entities = Append(@, value)]

insert_entities_in_result(entities, errors, cache_control, result, update_key_private, should_cache_private) ==
    [InsertLoop(entities, errors, cache_control, result, update_key_private,
                should_cache_private, Len(result))
     EXCEPT !.taken = @] @@
    [ttl |-> IF IsSome(Ttl(cache_control)) THEN Ttl(cache_control) ELSE subgraph_ttl]

\* to_headers: the Cache-Control header written for a CacheControl
ToHeaders(cc) == [no_store |-> cc.no_store, private |-> cc.private, max_age |-> Ttl(cc)]

\* ------------------------------------------------------------------ inputs
Users == {"a"}
Versions == {"v1"}
QueryTexts == {[query |-> "query1", hash |-> "hash1"]}
EmptyObject == [x \in {} |-> Null]

\* the entities a request may ask for, in a fixed order
Catalog ==
    << Obj([__typename |-> Str("Product"), id |-> Str("1")]),
       Obj([__typename |-> Str("User"), id |-> Str("2")]),
       Obj([__typename |-> Str("Product"), id |-> Str("3")]),
       Obj([__typename |-> Str("User"), id |-> Str("4")]) >>

\* the sub-lists of the first n catalog entries
RECURSIVE SubLists(_)
SubLists(n) ==
    IF n = 0 THEN {<<>>}
    ELSE SubLists(n - 1) \cup {Append(s, Catalog[n]) : s \in SubLists(n - 1)}

RepresentationLists == SubLists(Min(MaxReprs, Len(Catalog)))

Contexts == {EmptyObject} \cup {[user |-> Str(u)] : u \in Users}

VariableSets ==
    {EmptyObject}
    \cup {[representations |-> Arr(reps), first |-> Str("10")] :
            reps \in RepresentationLists}

\* subgraph::Request
Requests ==
    {[batch |-> FALSE, operation_kind |-> "Query", subgraph_name |-> n,
      query |-> q.query, query_hash |-> q.hash,
      body |-> [operation_name |-> None, variables |-> v],
      context |-> c, authorization |-> <<"anonymous">>] :
        n \in Subgraphs, q \in QueryTexts, v \in VariableSets, c \in Contexts}

\* variables that request validation has to cope with: representations that
\* are an empty list, lack __typename, hold a value that is no object, or are
\* no array at all
EdgeVariableSets ==
    {EmptyObject}
    \cup {[representations |-> v, first |-> Str("10")] :
            v \in {Arr(<<Catalog[1]>>),
                   Arr(<<>>),
                   Arr(<<Obj([id |-> Str("1")])>>),
                   Arr(<<Catalog[1], Str("1")>>),
                   Null, Str("1"), Num("7"), Obj(EmptyObject)}}

\* subgraph::Request, batched or not, of either operation kind
EdgeRequests ==
    {[batch |-> b, operation_kind |-> k, subgraph_name |-> n,
      query |-> q.query, query_hash |-> q.hash,
      body |-> [operation_name |-> None, variables |-> v],
      context |-> c, authorization |-> <<"anonymous">>] :
        b \in BOOLEAN, k \in {"Query", "Mutation"},
        n \in Subgraphs, q \in QueryTexts, v \in EdgeVariableSets, c \in Contexts}

\* the subgraph requests of one user's client requests: a root query, or an
\* _entities query for the first catalog entry
AggregationRequests ==
    {[batch |-> FALSE, operation_kind |-> "Query", subgraph_name |-> n,
      query |-> q.query, query_hash |-> q.hash,
      body |-> [operation_name |-> None, variables |-> v],
      context |-> c, authorization |-> <<"anonymous">>] :
        n \in Subgraphs, q \in QueryTexts, c \in Contexts,
        v \in {EmptyObject,
               [representations |-> Arr(<<Catalog[1]>>), first |-> Str("10")]}}

\* the requests of two users and of nobody: a root query, or an _entities
\* query for the first catalog entry
IsolationRequests ==
    {[batch |-> FALSE, operation_kind |-> "Query", subgraph_name |-> n,
      query |-> q.query, query_hash |-> q.hash,
      body |-> [operation_name |-> None, variables |-> v],
      context |-> c, authorization |-> <<"anonymous">>] :
        n \in Subgraphs, q \in QueryTexts,
        c \in {EmptyObject, [user |-> Str("a")], [user |-> Str("b")]},
        v \in {EmptyObject,
               [representations |-> Arr(<<Catalog[1]>>), first |-> Str("10")]}}

\* requests whose representations share a typename: a root query, or an
\* _entities query for one Product, for two, or for two and a User
MetricsRequests ==
    {[batch |-> FALSE, operation_kind |-> "Query", subgraph_name |-> n,
      query |-> q.query, query_hash |-> q.hash,
      body |-> [operation_name |-> None, variables |-> v],
      context |-> EmptyObject, authorization |-> <<"anonymous">>] :
        n \in Subgraphs, q \in QueryTexts,
        v \in {EmptyObject} \cup
              {[representations |-> Arr(l), first |-> Str("10")] :
                 l \in {<<Catalog[1]>>, <<Catalog[1], Catalog[3]>>,
                        <<Catalog[1], Catalog[2], Catalog[3]>>}}}

\* requests of a signed-in user: a root operation or an _entities operation
\* for the first catalog entry, of either operation kind
InvalidationRequests ==
    {[batch |-> FALSE, operation_kind |-> k, subgraph_name |-> n,
      query |-> q.query, query_hash |-> q.hash,
      body |-> [operation_name |-> None, variables |-> v],
      context |-> [user |-> Str(u)], authorization |-> <<"anonymous">>] :
        k \in {"Query", "Mutation"}, n \in Subgraphs, q \in QueryTexts, u \in Users,
        v \in {EmptyObject,
               [representations |-> Arr(<<Catalog[1]>>), first |-> Str("10")]}}

\* the `invalidation` extension of a subgraph response: none, or one target,
\* an entity type or the root type
InvalidationExtensions ==
    {None}
    \cup {Some(Arr(<<Obj([subgraph |-> Str("inventory"), type |-> Str(t)])>>)) :
            t \in {"Product", "Query"}}

\* the `invalidation` extension of a subgraph response: none, a list of
\* targets, or a value that is no such list
Extensions ==
    {None,
     Some(Arr(<<Obj([subgraph |-> Str("inventory"), type |-> Str("Product")])>>)),
     Some(Str("all"))}

\* the Cache-Control headers a subgraph answers with (None: no header)
Headers ==
    {None}
    \cup {Some([no_store |-> ns, private |-> p, max_age |-> Some(MaxAge)]) :
            ns \in {FALSE}, p \in BOOLEAN}
    \cup {Some([no_store |-> TRUE, private |-> FALSE, max_age |-> None])}

NoPathError == [message |-> "failed", path |-> None]
EntityError(k) == [message |-> "failed", path |-> Some(<<PKey(ENTITIES), PIndex(k), PKey("id")>>)]

\* what the subgraph computes for a representation
EntityPayload(representation, ver) ==
    IF IsObject(representation) /\ "id" \in DOMAIN representation.fields
    THEN Obj([id |-> representation.fields["id"], ver |-> Str(ver)])
    ELSE Null

\* the responses of the subgraph to a root request
RootResponses ==
    {[headers |-> h, data |-> d, errors |-> e] :
        h \in Headers,
        d \in {None} \cup {Some(Obj([root |-> Str(ver)])) : ver \in Versions},
        e \in {<<>>, <<NoPathError>>}}

\* the responses of the subgraph to an _entities request for `reps`: no data,
\* or the entities of the first m representations, or all of them with an
\* error on one
EntityResponses(reps) ==
    {[headers |-> h, data |-> d, errors |-> e] :
        h \in Headers,
        d \in {None}
              \cup {Some(Obj([_entities |->
                      Arr([i \in 1..m |-> EntityPayload(reps[i], ver)])])) :
                      m \in (Len(reps) - 1)..Len(reps), ver \in Versions},
        e \in {<<>>}}
    \cup
    {[headers |-> h,
      data |-> Some(Obj([_entities |->
                  Arr([i \in 1..Len(reps) |-> EntityPayload(reps[i], ver)])])),
      errors |-> <<EntityError(k)>>] :
        h \in Headers, ver \in Versions, k \in 0..(Len(reps) - 1)}

\* what the subgraph may answer to the request body it receives
Responses(body) ==
    IF REPRESENTATIONS \in DOMAIN body.variables /\ IsArray(body.variables[REPRESENTATIONS])
    THEN EntityResponses(body.variables[REPRESENTATIONS].items)
    ELSE RootResponses

\* the fingerprint of a request, per representation on the entity path
Fingerprint(req, representation) ==
    [query_hash |-> req.query_hash, operation_name |-> req.body.operation_name,
     variables |-> RemoveKey(req.body.variables, REPRESENTATIONS),
     authorization |-> req.authorization,
     extra |-> IF CONTEXT_CACHE_KEY \in DOMAIN req.context
               THEN Some(req.context[CONTEXT_CACHE_KEY]) ELSE None,
     private_id |-> get_private_id(req.context),
     subgraph_name |-> req.subgraph_name,
     representation |-> representation]

\* history kept with a written entry: whom it was written for, and whether the
\* query was in the registry once that response had been handled
WrittenFor(req, representation, known_after) ==
    [fingerprint |-> Fingerprint(req, representation), known_after |-> known_after,
     overtaken |-> FALSE]

\* ------------------------------------------------- comparison jobs
\* Jobs are dropped if this many are already queued
QUEUE_SIZE == 10

\* the channel when the worker thread is spawned: nothing sent, nothing
\* received.  `scheduled` counts the calls of schedule (the n-th job is n);
\* `accepted`, `dropped` and `executed` are history
queue ==
    [channel |-> <<>>, executing |-> None, scheduled |-> 0,
     accepted |-> <<>>, dropped |-> {}, executed |-> <<>>]

\* a channel that takes every message
try_send_unbounded(channel, job) == [ok |-> TRUE, channel |-> Append(channel, job)]

\* try_send on a channel bounded to QUEUE_SIZE messages: an error, at once,
\* when it is full
try_send(channel, job) ==
    IF Len(channel) < QUEUE_SIZE
    THEN [ok |-> TRUE, channel |-> Append(channel, job)]
    ELSE [ok |-> FALSE, channel |-> channel]

\* ------------------------------------------------- comparing documents
ENTITIES_QUERY == "_entities"

\* the names of the documents below, in the order Name::cmp gives them
Names == <<"_entities", "qv1", "qv2", "w", "x", "y">>
NameRank(name) == CHOOSE i \in 1..Len(Names) : Names[i] = name

\* ast::Selection::Field: a name and the selections under it (no alias, no
\* arguments, no directives; source locations are no part of a comparison)
Field(name, selection_set) == [name |-> name, selection_set |-> selection_set]

\* hash_value of a selection: what DefaultHasher makes of the name and of the
\* selections under it in their order; no two selections below collide
RECURSIVE hash_value(_), HashAll(_)
hash_value(x) == NameRank(x.name) + 7 * HashAll(x.selection_set)

HashAll(selections) ==
    IF selections = <<>> THEN 0
    ELSE 31 * HashAll(SubSeq(selections, 1, Len(selections) - 1))
         + hash_value(selections[Len(selections)])

\* the items of a slice
Elements(v) == {v[i] : i \in 1..Len(v)}

\* a closure is the table of its values over the items it is applied to:
\* T::eq on the pairs of two slices
Eq(this, other) == [p \in Elements(this) \X Elements(other) |-> p[1] = p[2]]

\* |x, y| x.name.cmp(&y.name), as the key it compares, on these definitions
ByName(variables) == [x \in Elements(variables) |-> NameRank(x.name)]

\* hash_value on these selections
HashValues(selections) == [x \in Elements(selections) |-> hash_value(x)]

\* sort_by, sort_by_key: a stable sort, equal keys keep their order
SortByKey(v, key) ==
    LET pos(i) == 1 + Cardinality({j \in 1..Len(v) :
                         \/ key[v[j]] < key[v[i]]
                         \/ key[v[j]] = key[v[i]] /\ j < i})
    IN  [k \in 1..Len(v) |-> v[CHOOSE i \in 1..Len(v) : pos(i) = k]]

vec_matches(this, other, item_matches) ==
    /\ Len(this) = Len(other)
    /\ \A i \in 1..Len(this) : item_matches[<<this[i], other[i]>>]

vec_matches_sorted_by(this, other, compare) ==
    vec_matches(SortByKey(this, compare), SortByKey(other, compare), Eq(this, other))

vec_matches_sorted_by_key(this, other, key_fn) ==
    vec_matches(SortByKey(this, key_fn), SortByKey(other, key_fn), Eq(this, other))

\* a comparison that never sorts
same_ast_selection_set_in_order(x, y) == x = y

\* the selections sorted by their hash, then compared one by one
same_ast_selection_set_sorted(x, y) == vec_matches_sorted_by_key(x, y, HashValues(x \o y))

same_ast_top_level_selection_set(x, y) ==
    IF /\ Len(x) = 1
       /\ Len(y) = 1
       /\ x[1].name = ENTITIES_QUERY
       /\ y[1].name = ENTITIES_QUERY
    THEN same_ast_selection_set_sorted(x[1].selection_set, y[1].selection_set)
    ELSE x = y

\* a comparison that takes the variables in the order they are declared
same_ast_operation_definition_in_order(x, y) ==
    /\ x.operation_type = y.operation_type
    /\ vec_matches(x.variables, y.variables, Eq(x.variables, y.variables))
    /\ x.directives = y.directives
    /\ same_ast_top_level_selection_set(x.selection_set, y.selection_set)

\* operation names are ignored
same_ast_operation_definition(x, y) ==
    /\ x.operation_type = y.operation_type
    /\ vec_matches_sorted_by(x.variables, y.variables, ByName(x.variables \o y.variables))
    /\ x.directives = y.directives
    /\ same_ast_top_level_selection_set(x.selection_set, y.selection_set)

same_ast_definition(x, y) ==
    CASE x.kind = "operation" /\ y.kind = "operation" -> same_ast_operation_definition(x, y)
      [] x.kind = "fragment" /\ y.kind = "fragment" -> x = y
      [] OTHER -> FALSE

\* zip stops at the end of the shorter list of definitions
same_ast_document(x, y) ==
    \A i \in 1..Min(Len(x.definitions), Len(y.definitions)) :
        same_ast_definition(x.definitions[i], y.definitions[i])

\* every order of every subset of S
Orders(S) ==
    {v \in UNION {[1..n -> S] : n \in 0..Cardinality(S)} :
        \A i, j \in 1..Len(v) : i # j => v[i] # v[j]}

\* ($qv1: Int!, $qv2: String!), any of them, in any order
VariableDefinitions ==
    Orders({[name |-> "qv1", ty |-> "Int!"], [name |-> "qv2", ty |-> "String!"]})

\* x { w } and y, any of them, in any order
SelectionSets ==
    Orders({Field("x", <<Field("w", <<>>)>>), Field("y", <<>>)}) \ {<<>>}

\* selection sets of an operation: fields of the schema, one `_entities`
\* field, an `_entities` field followed by another field
TopLevelSelectionSets ==
    SelectionSets
    \cup {<<Field(ENTITIES_QUERY, s)>> : s \in SelectionSets}
    \cup {<<Field(ENTITIES_QUERY, s), Field("y", <<>>)>> : s \in {t \in SelectionSets : Len(t) = MaxSelections}}

Operations ==
    [kind : {"operation"}, operation_type : {"query"}, name : {None, Some("a")},
     variables : VariableDefinitions, directives : {<<>>},
     selection_set : TopLevelSelectionSets]

FragmentDefinition ==
    [kind |-> "fragment", name |-> "f", selection_set |-> <<Field("w", <<>>)>>]

\* documents of no definition, of one operation, of an operation and a fragment
Documents ==
    {[definitions |-> d] :
        d \in {<<>>} \cup {<<o>> : o \in Operations}
              \cup {<<o, FragmentDefinition>> : o \in Operations}}

\* ------------------------------------------------------------------ state
VARIABLES
    store,            \* the KV backend: key -> [control, data, by, ttl]
    private_queries,  \* the private-query registry
    pending,          \* detached write-back tasks not yet run
    started,          \* number of requests accepted so far
    call,             \* per request: where call_inner is and what it has seen
    context_control,  \* the CacheControl in the extensions of the shared Context
    plugin,           \* the Config, what EntityCache::new made of it, the services built
    registry_lock,    \* the RwLock of the registry: the calls holding its guards
    QUEUE,            \* the channel of comparison jobs and what its worker is doing
    compared          \* two documents and what same_ast_document said of them

vars ==
    <<store, private_queries, pending, started, call, context_control, plugin,
      registry_lock, QUEUE, compared>>

\* the Context of the client request is not followed: its CacheControl is
\* followed from a NewContext on.  `control` is the CacheControl of its
\* extensions; `all` is history, the merge of the Cache-Control of every
\* subgraph response given back under this Context
Untracked == [tracked |-> FALSE, control |-> None, all |-> None]

\* ------------------------------------------------------------------ the registry lock
\* RwLock::new(HashSet::new()): nobody holds a guard
Unlocked == [readers |-> {}, writer |-> None]

\* variant: the guard of call r outlives the statement that took it
DroppedLate(lock, r) == lock

\* the guard of call r is dropped: a temporary, at the end of the statement
\* (of the block, for the read guard) that took it
Dropped(lock, r) ==
    [readers |-> lock.readers \ {r},
     writer |-> IF lock.writer = Some(r) THEN None ELSE lock.writer]

\* ------------------------------------------------------------------ the plugin
\* struct Subgraph: the configuration of one subgraph, or of `all`
SubgraphConfigs ==
    [ttl : {None, Some(MaxAge)}, enabled : {None, Some(TRUE), Some(FALSE)},
     private_id : {private_id_key}]

\* the subgraph names a service may be asked for
SubgraphNames == {"inventory", "accounts"}

\* struct Config, with what RedisCacheStorage::new will answer
Configs ==
    [redis : [ttl : {None, Some(MaxAge)}, required_to_start : BOOLEAN, connects : BOOLEAN],
     enabled : BOOLEAN,
     subgraph : [all : SubgraphConfigs,
                 subgraphs : UNION {[D -> SubgraphConfigs] : D \in SUBSET SubgraphNames}]]

\* SubgraphConfiguration::get: the entry of the name, or else `all`
ConfigGet(subgraph, name) ==
    IF name \in DOMAIN subgraph.subgraphs THEN subgraph.subgraphs[name] ELSE subgraph.all

\* EntityCache::new, the TTL validation: Err iff there is no global ttl and
\* some entry of the `subgraphs` map has none
TtlConfigured(config) ==
    ~(/\ ~IsSome(config.redis.ttl)
      /\ \E n \in DOMAIN config.subgraph.subgraphs :
            ~IsSome(config.subgraph.subgraphs[n].ttl))

\* EntityCache::new: Err of the connection when required_to_start, Err of the
\* TTL validation, or the plugin, its storage None when Redis is not there
new(config) ==
    IF ~config.redis.connects /\ config.redis.required_to_start
    THEN [kind |-> "err", error |-> "redis"]
    ELSE IF ~TtlConfigured(config)
    THEN [kind |-> "err",
          error |-> "a TTL must be configured for all subgraphs or globally"]
    ELSE [kind |-> "ok", storage |-> config.redis.connects, enabled |-> config.enabled,
          subgraphs |-> config.subgraph, storage_ttl |-> config.redis.ttl]

\* subgraph_service: subgraph_ttl
SubgraphTtlOf(this, name) ==
    IF IsSome(ConfigGet(this.subgraphs, name).ttl)
    THEN ConfigGet(this.subgraphs, name).ttl
    ELSE this.storage_ttl

\* subgraph_service: subgraph_enabled
SubgraphEnabledOf(this, name) ==
    this.enabled /\ (IF IsSome(ConfigGet(this.subgraphs, name).enabled)
                     THEN Unwrap(ConfigGet(this.subgraphs, name).enabled)
                     ELSE TRUE)

\* subgraph_service: with no storage the bare service under the
\* Cache-Control wrapper, else the CacheService when subgraph_enabled
subgraph_service(this, name) ==
    IF ~this.storage
    THEN [cached |-> FALSE, computed |-> FALSE, subgraph_ttl |-> None,
          subgraph_enabled |-> FALSE, private_id |-> None]
    ELSE [cached |-> SubgraphEnabledOf(this, name), computed |-> TRUE,
          subgraph_ttl |-> SubgraphTtlOf(this, name),
          subgraph_enabled |-> SubgraphEnabledOf(this, name),
          private_id |-> ConfigGet(this.subgraphs, name).private_id]

\* the configuration of the InnerCacheService above
RunningConfig ==
    [redis |-> [ttl |-> storage_ttl, required_to_start |-> FALSE, connects |-> TRUE],
     enabled |-> TRUE,
     subgraph |-> [all |-> [ttl |-> subgraph_ttl, enabled |-> None,
                            private_id |-> private_id_key],
                   subgraphs |-> EmptyObject]]

\* the plugin made and its services built
Running ==
    [config |-> RunningConfig, made |-> Some(new(RunningConfig)),
     services |-> [n \in SubgraphNames |->
                     IF n \in Subgraphs
                     THEN Some(subgraph_service(new(RunningConfig), n)) ELSE None]]

Idle ==
    [pc |-> "idle", path |-> "none", request |-> None, is_known_private |-> FALSE, keys |-> <<>>,
     got |-> <<>>, result |-> <<>>, cached_control |-> None, forwarded |-> None,
     upstream |-> None, response |-> None, cache_control |-> None, written |-> None,
     calls |-> 0, seen |-> {}, reads |-> 0, registry_read |-> FALSE, invalidated |-> None,
     read_failed |-> FALSE, cache_hit |-> None]

Init ==
    /\ store = EmptyObject
    /\ private_queries = {}
    /\ pending = {}
    /\ started = 0
    /\ call = [r \in Reqs |-> Idle]
    /\ context_control = Untracked
    /\ plugin = Running
    /\ registry_lock = Unlocked
    /\ QUEUE = queue
    /\ compared = None

\* a finished call is observed, then forgotten, before any other call goes
\* downstream and before the store changes
NoneDone == \A r \in Reqs : call[r].pc # "done"

Req(r) == Unwrap(call[r].request)
PrivateId(r) == get_private_id(Req(r).context)

\* the fingerprints of a request: its own on the root path, one per
\* representation on the entity path
Fingerprints(req) ==
    IF REPRESENTATIONS \in DOMAIN req.body.variables
    THEN IF IsArray(req.body.variables[REPRESENTATIONS])
         THEN {Fingerprint(req, Some(req.body.variables[REPRESENTATIONS].items[i])) :
                 i \in 1..Len(req.body.variables[REPRESENTATIONS].items)}
         ELSE {}
    ELSE {Fingerprint(req, None)}

\* history: the usable entries of the store, as <<key, entry>>, that were
\* written for one of these fingerprints with the registry as it is for `known`
StoredFor(fps, known) ==
    {<<k, store[k]>> : k \in {x \in DOMAIN store :
                                 /\ store[x].by.fingerprint \in fps
                                 /\ store[x].by.known_after = known
                                 /\ CanUse(store[x].control)}}

\* history: what a call saw in the store when it started and still finds there
StillSeen(r) ==
    call[r].seen \cap StoredFor(Fingerprints(Req(r)), call[r].is_known_private)

\* RedisCacheStorage::get
Get(key) == IF key \in DOMAIN store THEN Some(store[key]) ELSE None
\* RedisCacheStorage::get_multiple
GetMultiple(ks) == [i \in 1..Len(ks) |-> Get(ks[i])]

\* call_inner up to its first await: the batch check, the registry read, and
\* the choice of the path
\* variant: no request is taken for a batched one
IsBatchNever(req) == FALSE

\* context.extensions() holds a BatchQuery
IsBatch(req) == req.batch

StartFrom(r, cap, requests) ==
    /\ call[r].pc = "idle"
    /\ \A q \in Reqs : q < r => call[q].pc # "idle"
    /\ started < cap
    /\ \E req \in requests :
         LET is_known_private == req.query \in private_queries
             private_id == get_private_id(req.context)
             next_pc ==
                 IF IsBatch(req) THEN "call_bypass"
                 ELSE IF is_known_private /\ ~IsSome(private_id) THEN "call_bypass"
                 ELSE IF REPRESENTATIONS \notin DOMAIN req.body.variables
                 THEN IF req.operation_kind = "Query" THEN "lookup_root" ELSE "call_other"
                 ELSE "lookup_entities"
         IN  call' = [call EXCEPT ![r] =
                        [Idle EXCEPT !.pc = next_pc, !.path = next_pc,
                                     !.request = Some(req),
                                     !.registry_read = ~IsBatch(req),
                                     !.is_known_private = ~IsBatch(req) /\ is_known_private,
                                     !.seen = StoredFor(Fingerprints(req),
                                                        ~IsBatch(req) /\ is_known_private)]]
    /\ started' = started + 1
    /\ UNCHANGED <<store, private_queries, pending, context_control, plugin, registry_lock, QUEUE, compared>>

Start(r, cap) == StartFrom(r, cap, Requests)

\* variant: can_use() is not consulted
UsableAnyAge(v) == IsSome(v)

\* a store result the lookup keeps: present, and its control can_use
Usable(v) == IsSome(v) /\ CanUse(Unwrap(v).control)

\* Response::builder().data(..) with the headers of to_headers
CachedResponse(data, control) ==
    [kind |-> "ok", headers |-> Some(ToHeaders(control)), data |-> Some(data),
     errors |-> <<>>, extensions |-> None]

\* CacheControl::new(headers, ttl) is Err: there is a Cache-Control header
\* and it does not parse
ParseFails(up_headers) == IsSome(up_headers) /\ "raw" \in DOMAIN Unwrap(up_headers)

\* cache_lookup_root, on a hit: lock.insert(control) on the context extensions
ContextInsert(ctx, control) ==
    IF ctx.tracked THEN [ctx EXCEPT !.control = Some(control)] ELSE ctx

\* update_cache_control: merge into the CacheControl of the context, or
\* insert when there is none
update_cache_control(held, cache_control) ==
    IF IsSome(held) THEN Some(Merge(Unwrap(held), cache_control)) ELSE Some(cache_control)

\* CacheControl::new(response.headers(), None).ok().unwrap_or_else(no_store)
ResponseControl(response_headers) ==
    IF ~IsSome(response_headers) \/ ParseFails(response_headers)
    THEN CacheControlNoStore
    ELSE CacheControlNew(Unwrap(response_headers), None)

\* the map_response of subgraph_service, on the response call_inner gave
ContextUpdate(ctx, response) ==
    IF ctx.tracked /\ response.kind = "ok"
    THEN [ctx EXCEPT
            !.control = update_cache_control(@, ResponseControl(response.headers)),
            !.all = update_cache_control(@, ResponseControl(response.headers))]
    ELSE ctx

\* how many of the typenames are t
CountOf(typenames, t) == Cardinality({i \in 1..Len(typenames) : typenames[i] = t})

\* CacheSubgraph(cache_hit), each typename marked rather than counted
CacheSubgraphMarks(hit, miss) ==
    [t \in {hit[i] : i \in 1..Len(hit)} \cup {miss[i] : i \in 1..Len(miss)} |->
        [hit |-> Min(1, CountOf(hit, t)), miss |-> Min(1, CountOf(miss, t))]]

\* CacheSubgraph(cache_hit) of filter_representations: per typename, one
\* more hit for each cache entry used, one more miss for each one forwarded
CacheSubgraph(hit, miss) ==
    [t \in {hit[i] : i \in 1..Len(hit)} \cup {miss[i] : i \in 1..Len(miss)} |->
        [hit |-> CountOf(hit, t), miss |-> CountOf(miss, t)]]

\* CacheSubgraph(cache_hit) of the root path, on ControlFlow::Break
QueryHit == [Query |-> [hit |-> 1, miss |-> 0]]

\* CacheSubgraph(cache_hit) of the root path, on ControlFlow::Continue
QueryMiss == [Query |-> [hit |-> 0, miss |-> 1]]

\* the store answers every read
StoreUp == {FALSE}
\* a read of the store may fail
StoreFlaky == BOOLEAN

\* cache_lookup_root; the read fails for one of `failures`
LookupRootWith(r, failures) ==
    /\ call[r].pc = "lookup_root"
    /\ \E fails \in failures :
       LET key == extract_cache_key_root(Req(r).subgraph_name, entity_type_opt,
                                         Req(r).query_hash, Req(r).body, Req(r).context,
                                         Req(r).authorization, call[r].is_known_private,
                                         PrivateId(r))
           cache_result == IF fails THEN None ELSE Get(key)
       IN  IF Usable(cache_result)
           THEN /\ call' = [call EXCEPT ![r] =
                              [@ EXCEPT !.pc = "done", !.keys = <<key>>,
                                        !.seen = StillSeen(r),
                                        !.got = <<cache_result>>, !.reads = @ + 1,
                                        !.cache_hit = Some(QueryHit),
                                        !.response = Some(CachedResponse(
                                            Unwrap(cache_result).data,
                                            Unwrap(cache_result).control))]]
                /\ context_control' =
                      ContextInsert(context_control, Unwrap(cache_result).control)
           ELSE /\ call' = [call EXCEPT ![r] =
                              [@ EXCEPT !.pc = "call_root", !.keys = <<key>>,
                                        !.seen = StillSeen(r),
                                        !.got = <<cache_result>>, !.reads = @ + 1,
                                        !.read_failed = fails,
                                        !.cache_hit = Some(QueryMiss),
                                        !.forwarded = Some(Req(r).body)]]
                /\ UNCHANGED context_control
    /\ UNCHANGED <<store, private_queries, pending, started, plugin, registry_lock, QUEUE, compared>>

LookupRoot(r) == LookupRootWith(r, StoreUp)

\* the response of the subgraph, returned as it came
Verbatim(up) ==
    [kind |-> "ok", headers |-> up.headers, data |-> up.data, errors |-> up.errors,
     extensions |-> up.extensions]
Failure(reason) ==
    [kind |-> reason, headers |-> None, data |-> None, errors |-> <<>>, extensions |-> None]

\* the Cache-Control of a root response (call_inner, root branch)
RootCacheControl(up_headers) ==
    IF IsSome(up_headers)
    THEN CacheControlNew(Unwrap(up_headers), storage_ttl)
    ELSE [CacheControlDefault EXCEPT !.no_store = TRUE]

\* the key the root branch of call_inner stores under, for a private response
RootStoreKey(root_cache_key, cache_control, private_id) ==
    IF IsPrivate(cache_control) /\ IsSome(private_id)
    THEN WithSuffix(root_cache_key, Unwrap(private_id))
    ELSE root_cache_key

\* variant: the registry is never written
LearnsNever(cache_control, is_known_private) == FALSE

\* variant: every query seen for the first time enters the registry
LearnsAlways(cache_control, is_known_private) == ~is_known_private

\* whether call_inner inserts the query into the private-query registry: the
\* response is private and the query was not known to be
Learns(cache_control, is_known_private) == ~is_known_private /\ IsPrivate(cache_control)

\* variant: a response with errors is stored
RootStorableWithErrors(up, cache_control) == IsSome(up.data) /\ ShouldStore(cache_control)

\* cache_store_root_from_response: the body has data, no errors, and the
\* Cache-Control allows the store
RootStorable(up, cache_control) ==
    IsSome(up.data) /\ up.errors = <<>> /\ ShouldStore(cache_control)

\* cache_store_root_from_response: the insert it spawns, if any
cache_store_root_from_response(up, cache_control, cache_key, by) ==
    IF RootStorable(up, cache_control)
    THEN Some([items |-> <<[key |-> cache_key, control |-> cache_control,
                            data |-> Unwrap(up.data), by |-> by]>>,
               ttl |-> IF IsSome(Ttl(cache_control)) THEN Ttl(cache_control)
                       ELSE subgraph_ttl])
    ELSE None

Spawn(tasks, task) == IF IsSome(task) THEN tasks \cup {Unwrap(task)} ELSE tasks
\* the write-back tasks in flight are bounded
CanSpawn == Cardinality(pending) < MaxPending

\* from_value(invalidation_extensions): the <<subgraph, type>> targets, when
\* the value is a list of targets
Targets(v) ==
    IF IsArray(v)
       /\ \A i \in 1..Len(v.items) :
            /\ IsObject(v.items[i])
            /\ {"subgraph", "type"} \subseteq DOMAIN v.items[i].fields
    THEN Some({<<v.items[i].fields["subgraph"].s, v.items[i].fields["type"].s>> :
                 i \in 1..Len(v.items)})
    ELSE None

\* the key lies under the prefix of a target {subgraph, type}: a root key
\* subgraph:S:type:T:... or an entity key subgraph:S:T:...
InPrefix(key, target) ==
    /\ key[1] = <<"subgraph">>
    /\ key[2] = <<target[1]>>
    /\ \/ key[3] = <<target[2]>>
       \/ key[3] = <<"type">> /\ key[4] = <<target[2]>>

\* Invalidation::invalidate: the store without the keys under the targets
Invalidated(st, targets) ==
    [k \in {x \in DOMAIN st : ~\E t \in targets : InPrefix(x, t)} |-> st[k]]

\* handle_invalidation on the store: nothing when the value does not parse
handle_invalidation(st, invalidation_extensions) ==
    IF IsSome(invalidation_extensions) /\ IsSome(Targets(Unwrap(invalidation_extensions)))
    THEN Invalidated(st, Unwrap(Targets(Unwrap(invalidation_extensions))))
    ELSE st

\* history: the write-backs in flight that a completed invalidation of their
\* keys has overtaken are marked
Overtaken(tasks, invalidation_extensions) ==
    IF IsSome(invalidation_extensions) /\ IsSome(Targets(Unwrap(invalidation_extensions)))
    THEN {[task EXCEPT !.items =
             [i \in 1..Len(task.items) |->
                IF \E t \in Unwrap(Targets(Unwrap(invalidation_extensions))) :
                      InPrefix(task.items[i].key, t)
                THEN [task.items[i] EXCEPT !.by.overtaken = TRUE]
                ELSE task.items[i]]] : task \in tasks}
    ELSE tasks

\* the subgraph response with this Cache-Control header
WithHeaders(up, h) == [up EXCEPT !.headers = h]

\* the subgraph response with these errors after its own
WithErrors(up, errors) == [up EXCEPT !.errors = @ \o errors]

\* no further error
NoMoreErrors == {<<>>}

\* an error whose path does not begin with `_entities`
OtherPathError == [message |-> "failed", path |-> Some(<<PKey("other"), PKey("id")>>)]

\* errors that belong to no entity of the response: one without a path, one
\* whose path begins elsewhere, one that points at an index past every entity
StrayErrors ==
    {<<>>, <<NoPathError>>, <<OtherPathError>>, <<EntityError(MaxReprs)>>}

\* the subgraph response with its `invalidation` extension (None: no such field)
WithExtensions(up, ext) ==
    [headers |-> up.headers, data |-> up.data, errors |-> up.errors, extensions |-> ext]

\* extensions.remove("invalidation")
Consumed(response) == [response EXCEPT !.extensions = None]

\* call_inner, root branch, from the downstream call to the response; the
\* subgraph attaches one of `extensions` and may send one of `more_headers`
\* as its Cache-Control header
CallRootWith(r, extensions, more_headers) ==
    /\ NoneDone
    /\ call[r].pc = "call_root"
    /\ \E up0 \in Responses(Unwrap(call[r].forwarded)), ext \in extensions :
       \E h \in {up0.headers} \cup more_headers :
         LET up == WithExtensions(WithHeaders(up0, h), ext)
             cache_control == RootCacheControl(up.headers)
             private_id == PrivateId(r)
             learns == Learns(cache_control, call[r].is_known_private)
             root_cache_key == RootStoreKey(call[r].keys[1], cache_control, private_id)
             returns_early == IsPrivate(cache_control) /\ ~IsSome(private_id)
             handled == IF returns_early THEN None ELSE ext
             task == IF ~returns_early /\ ShouldStore(cache_control)
                     THEN cache_store_root_from_response(
                              up, cache_control, root_cache_key,
                              WrittenFor(Req(r), None, call[r].is_known_private \/ learns))
                     ELSE None
         IN  IF ParseFails(up.headers)
             THEN /\ call' = [call EXCEPT ![r] =
                                [@ EXCEPT !.pc = "done", !.calls = @ + 1, !.seen = {},
                                          !.upstream = Some(up),
                                          !.response = Some(Failure("InvalidHeader"))]]
                  /\ UNCHANGED <<store, private_queries, pending>>
             ELSE /\ IsSome(task) => CanSpawn
                  /\ private_queries' =
                        IF learns THEN private_queries \cup {Req(r).query}
                        ELSE private_queries
                  /\ store' = handle_invalidation(store, handled)
                  /\ pending' = Spawn(Overtaken(pending, handled), task)
                  /\ call' = [call EXCEPT ![r] =
                                [@ EXCEPT !.pc = "done", !.calls = @ + 1, !.seen = {},
                                          !.upstream = Some(up),
                                          !.cache_control = Some(cache_control),
                                          !.written = task,
                                          !.invalidated = handled,
                                          !.response =
                                             Some(IF returns_early THEN Verbatim(up)
                                                  ELSE Consumed(Verbatim(up)))]]
    /\ UNCHANGED <<started, context_control, plugin, registry_lock, QUEUE, compared>>

\* the subgraph attaches no `invalidation` extension
NoExtensions == {None}
\* the subgraph sends the Cache-Control headers of its Responses only
NoBrokenHeaders == {}
\* a Cache-Control header that does not parse
BrokenHeaders == {Some([raw |-> "max-age=soon"])}
\* a Cache-Control header whose max-age is above the TTL of the subgraph
LongLivedHeaders ==
    {Some([no_store |-> FALSE, private |-> FALSE, max_age |-> Some(MaxAge + 1)])}

CallRoot(r) == CallRootWith(r, NoExtensions, NoBrokenHeaders)

\* variant: a failed read gives the empty list of results
AllMissesEmpty(keys) == <<>>

\* unwrap_or_else(|| repeat(None).take(keys.len())): a failed read is a miss
\* at every position
AllMisses(keys) == [i \in 1..Len(keys) |-> None]

\* cache_lookup_entities; the read fails for one of `failures`
LookupEntitiesWith(r, failures) ==
    /\ call[r].pc = "lookup_entities"
    /\ \E fails \in failures :
       LET body == Req(r).body
           keys == extract_cache_keys(Req(r).subgraph_name, Req(r).query_hash, body,
                                      Req(r).context, Req(r).authorization,
                                      call[r].is_known_private, PrivateId(r))
           got == IF fails THEN AllMisses(keys.keys)
                  ELSE GetMultiple(keys.keys)
           cache_result == [i \in 1..Len(got) |->
                              IF Usable(got[i]) THEN got[i] ELSE None]
           f == filter_representations(body.variables[REPRESENTATIONS].items,
                                       keys.keys, cache_result)
           entities == [i \in 1..Len(f.result) |-> Unwrap(f.result[i].cache_entry).data]
       IN  IF ~IsArray(body.variables[REPRESENTATIONS])
           THEN call' = [call EXCEPT ![r] =
                           [@ EXCEPT !.pc = "done", !.response = Some(Failure("panic"))]]
           ELSE IF ~keys.ok
           THEN call' = [call EXCEPT ![r] =
                           [@ EXCEPT !.pc = "done",
                                     !.response = Some(Failure("MalformedRequest"))]]
           ELSE IF ~f.ok
           THEN call' = [call EXCEPT ![r] =
                           [@ EXCEPT !.pc = "done", !.reads = @ + 1,
                                     !.response = Some(Failure("MalformedRequest"))]]
           ELSE IF f.new_representations # <<>>
           THEN call' = [call EXCEPT ![r] =
                           [@ EXCEPT !.pc = "call_entities", !.keys = keys.keys,
                                     !.seen = StillSeen(r), !.reads = @ + 1,
                                     !.read_failed = fails,
                                     !.got = got, !.result = f.result,
                                     !.cached_control = f.cache_control,
                                     !.cache_hit = Some(CacheSubgraph(f.hit, f.miss)),
                                     !.forwarded = Some([body EXCEPT
                                         !.variables = InsertKey(@, REPRESENTATIONS,
                                                           Arr(f.new_representations))])]]
           ELSE call' = [call EXCEPT ![r] =
                           [@ EXCEPT !.pc = "done", !.keys = keys.keys, !.seen = StillSeen(r),
                                     !.reads = @ + 1, !.read_failed = fails,
                                     !.got = got, !.result = f.result,
                                     !.cached_control = f.cache_control,
                                     !.cache_hit = Some(CacheSubgraph(f.hit, f.miss)),
                                     !.response = Some(CachedResponse(
                                         Obj([_entities |-> Arr(entities)]),
                                         IF IsSome(f.cache_control)
                                         THEN Unwrap(f.cache_control)
                                         ELSE CacheControlDefault))]]
    /\ UNCHANGED <<store, private_queries, pending, started, context_control, plugin, registry_lock, QUEUE, compared>>

LookupEntities(r) == LookupEntitiesWith(r, StoreUp)

\* variant: the control of the cached entries is not merged
EntityCacheControlOwn(up_headers, control_from_cached) ==
    IF IsSome(up_headers)
    THEN CacheControlNew(Unwrap(up_headers), storage_ttl)
    ELSE CacheControlNoStore

\* variant: a response without header takes the control of the cached entries
EntityCacheControlOfHits(up_headers, control_from_cached) ==
    LET own == IF IsSome(up_headers)
               THEN CacheControlNew(Unwrap(up_headers), storage_ttl)
               ELSE CacheControlDefault
    IN  IF IsSome(control_from_cached) THEN Merge(own, Unwrap(control_from_cached)) ELSE own

\* the Cache-Control of an _entities response (call_inner, entity branch)
EntityCacheControl(up_headers, control_from_cached) ==
    LET own == IF IsSome(up_headers)
               THEN CacheControlNew(Unwrap(up_headers), storage_ttl)
               ELSE CacheControlNoStore
    IN  IF IsSome(control_from_cached) THEN Merge(own, Unwrap(control_from_cached)) ELSE own

\* variant: private responses are stored whether or not there is a user id
ShouldCachePrivateAlways(cache_control, private_id) == TRUE

\* if the scope is private but there is no way to differentiate users, nothing
\* is stored
ShouldCachePrivate(cache_control, private_id) ==
    ~IsPrivate(cache_control) \/ IsSome(private_id)

\* the user id appended to the keys when this response discovers privacy
UpdateKeyPrivate(cache_control, is_known_private, private_id) ==
    IF ~is_known_private /\ IsPrivate(cache_control) THEN private_id ELSE None

\* cache_store_entities_from_response: the body it leaves in the response and
\* the insert_multiple it spawns
cache_store_entities_from_response(up, cache_control, result_from_cache, is_known_private, private_id) ==
    IF IsSome(up.data) /\ IsObject(Unwrap(up.data))
       /\ ENTITIES \in DOMAIN Unwrap(up.data).fields
    THEN LET entities == Unwrap(up.data).fields[ENTITIES]
             should_cache_private == ShouldCachePrivate(cache_control, private_id)
             update_key_private ==
                 UpdateKeyPrivate(cache_control, is_known_private, private_id)
             m == insert_entities_in_result(
                      IF IsArray(entities) THEN entities.items ELSE <<>>,
                      up.errors, cache_control, result_from_cache,
                      update_key_private, should_cache_private)
         IN  IF ~IsArray(entities) \/ ~m.ok
             THEN [ok |-> FALSE, data |-> None, errors |-> <<>>,
                   to_insert |-> <<>>, ttl |-> None]
             ELSE [ok |-> TRUE,
                   data |-> Some(Obj(InsertKey(Unwrap(up.data).fields, ENTITIES,
                                               Arr(m.new_entities)))),
                   errors |-> m.new_errors, to_insert |-> m.to_insert, ttl |-> m.ttl]
    ELSE [ok |-> TRUE, data |-> None, errors |-> up.errors, to_insert |-> <<>>,
          ttl |-> None]

\* call_inner, entity branch, from the downstream call to the response; the
\* subgraph attaches one of `extensions` and may send one of `more_headers`
\* as its Cache-Control header
CallEntitiesWith(r, extensions, more_headers, more_errors) ==
    /\ NoneDone
    /\ call[r].pc = "call_entities"
    /\ \E up0 \in Responses(Unwrap(call[r].forwarded)), ext \in extensions :
       \E h \in {up0.headers} \cup more_headers, errors \in more_errors :
         LET up == WithExtensions(WithErrors(WithHeaders(up0, h), errors), ext)
             cache_control == EntityCacheControl(up.headers, call[r].cached_control)
             private_id == PrivateId(r)
             learns == Learns(cache_control, call[r].is_known_private)
             m == cache_store_entities_from_response(
                      up, cache_control, call[r].result, call[r].is_known_private,
                      private_id)
             inbound == Req(r).body.variables[REPRESENTATIONS].items
             task == IF m.ok /\ m.to_insert # <<>>
                     THEN Some([items |->
                                  [i \in 1..Len(m.to_insert) |->
                                     [key |-> m.to_insert[i].key,
                                      control |-> m.to_insert[i].control,
                                      data |-> m.to_insert[i].data,
                                      by |-> WrittenFor(Req(r),
                                                Some(inbound[m.to_insert[i].idx + 1]),
                                                call[r].is_known_private \/ learns)]],
                                ttl |-> m.ttl])
                     ELSE None
         IN  IF ParseFails(up.headers)
             THEN /\ call' = [call EXCEPT ![r] =
                                [@ EXCEPT !.pc = "done", !.calls = @ + 1, !.seen = {},
                                          !.upstream = Some(up),
                                          !.response = Some(Failure("InvalidHeader"))]]
                  /\ UNCHANGED <<store, private_queries, pending>>
             ELSE /\ IsSome(task) => CanSpawn
                  /\ private_queries' =
                        IF learns THEN private_queries \cup {Req(r).query}
                        ELSE private_queries
                  /\ store' = handle_invalidation(store, ext)
                  /\ pending' = Spawn(Overtaken(pending, ext), task)
                  /\ call' = [call EXCEPT ![r] =
                                [@ EXCEPT !.pc = "done", !.calls = @ + 1, !.seen = {},
                                          !.upstream = Some(up),
                                          !.cache_control = Some(cache_control),
                                          !.written = task,
                                          !.invalidated = ext,
                                          !.response =
                                             IF m.ok
                                             THEN Some([kind |-> "ok",
                                                        headers |->
                                                           Some(ToHeaders(cache_control)),
                                                        data |-> m.data, errors |-> m.errors,
                                                        extensions |-> None])
                                             ELSE Some(Failure("MalformedResponse"))]]
    /\ UNCHANGED <<started, context_control, plugin, registry_lock, QUEUE, compared>>

CallEntities(r) == CallEntitiesWith(r, NoExtensions, NoBrokenHeaders, NoMoreErrors)

\* call_inner for a batched request, or a known-private query without user id:
\* the downstream response is returned as it is
CallBypassWith(r, extensions) ==
    /\ NoneDone
    /\ call[r].pc = "call_bypass"
    /\ \E up0 \in Responses(Req(r).body), ext \in extensions :
         LET up == WithExtensions(up0, ext)
         IN  call' = [call EXCEPT ![r] =
                        [@ EXCEPT !.pc = "done", !.calls = @ + 1, !.seen = {},
                                  !.upstream = Some(up),
                                  !.forwarded = Some(Req(r).body),
                                  !.response = Some(Verbatim(up))]]
    /\ UNCHANGED <<store, private_queries, pending, started, context_control, plugin, registry_lock, QUEUE, compared>>

CallBypass(r) == CallBypassWith(r, NoExtensions)

\* call_inner for an operation that is not a query and has no representations
CallOtherWith(r, extensions) ==
    /\ NoneDone
    /\ call[r].pc = "call_other"
    /\ \E up0 \in Responses(Req(r).body), ext \in extensions :
         LET up == WithExtensions(up0, ext)
         IN  /\ store' = handle_invalidation(store, ext)
             /\ pending' = Overtaken(pending, ext)
             /\ call' = [call EXCEPT ![r] =
                           [@ EXCEPT !.pc = "done", !.calls = @ + 1, !.seen = {},
                                     !.upstream = Some(up),
                                     !.forwarded = Some(Req(r).body),
                                     !.invalidated = ext,
                                     !.response = Some(Consumed(Verbatim(up)))]]
    /\ UNCHANGED <<private_queries, started, context_control, plugin, registry_lock, QUEUE, compared>>

\* the caller takes the result of call_inner
Return(r) ==
    /\ call[r].pc = "done"
    /\ call' = [call EXCEPT ![r] = Idle]
    /\ context_control' = ContextUpdate(context_control, Unwrap(call[r].response))
    /\ UNCHANGED <<store, private_queries, pending, started, plugin, registry_lock, QUEUE, compared>>

\* call_inner with the awaits on the registry lock as steps of their own, the
\* store and the subgraph answering under no guard of the model's choosing.
\* A request enters: private_queries.read().await is next
Enter(r) ==
    /\ call[r].pc = "idle"
    /\ started < MaxLockCalls
    /\ \E req \in Requests :
         call' = [call EXCEPT ![r] = [Idle EXCEPT !.pc = "read_lock", !.path = "locking",
                                                  !.request = Some(req)]]
    /\ started' = started + 1
    /\ UNCHANGED <<store, private_queries, pending, context_control, plugin, registry_lock, QUEUE, compared>>

\* private_queries.read().await resolves: no writer holds the lock
AwaitRead(r) ==
    /\ call[r].pc = "read_lock"
    /\ registry_lock.writer = None
    /\ registry_lock' = [registry_lock EXCEPT !.readers = @ \cup {r}]
    /\ call' = [call EXCEPT ![r] = [@ EXCEPT !.pc = "read_held"]]
    /\ UNCHANGED <<store, private_queries, pending, started, context_control, plugin, QUEUE, compared>>

\* { ...contains(&query) }: is_known_private is read and the block ends; the
\* known-private request without user id goes to the subgraph, any other to
\* the store
Contains(r) ==
    /\ call[r].pc = "read_held"
    /\ LET is_known_private == Req(r).query \in private_queries
       IN  call' = [call EXCEPT ![r] =
                      [@ EXCEPT !.pc = IF is_known_private /\ ~IsSome(PrivateId(r))
                                       THEN "subgraph_call" ELSE "store_call",
                                !.registry_read = TRUE,
                                !.is_known_private = is_known_private]]
    /\ registry_lock' = Dropped(registry_lock, r)
    /\ UNCHANGED <<store, private_queries, pending, started, context_control, plugin, QUEUE, compared>>

\* cache.get / cache.get_multiple resolves: all found, or something to fetch
StoreAnswers(r) ==
    /\ call[r].pc = "store_call"
    /\ \E found \in BOOLEAN :
         call' = [call EXCEPT ![r] =
                    [@ EXCEPT !.pc = IF found THEN "done" ELSE "subgraph_call",
                              !.reads = @ + 1,
                              !.response =
                                  IF found
                                  THEN Some(CachedResponse(Null, CacheControlDefault))
                                  ELSE None]]
    /\ UNCHANGED <<store, private_queries, pending, started, context_control, plugin,
                   registry_lock, QUEUE, compared>>

\* self.service.call(request).await resolves: a private response to a query
\* not known as private has private_queries.write().await next
SubgraphAnswers(r) ==
    /\ call[r].pc = "subgraph_call"
    /\ \E up0 \in Responses(Req(r).body), ext \in NoExtensions :
         LET up == WithExtensions(up0, ext)
             private == IsSome(up.headers) /\ Unwrap(up.headers).private
             bypass == call[r].is_known_private /\ ~IsSome(PrivateId(r))
         IN  call' = [call EXCEPT ![r] =
                        [@ EXCEPT !.pc = IF ~bypass /\ private /\ ~call[r].is_known_private
                                         THEN "write_lock" ELSE "done",
                                  !.calls = @ + 1,
                                  !.upstream = Some(up),
                                  !.response = Some(Verbatim(up))]]
    /\ UNCHANGED <<store, private_queries, pending, started, context_control, plugin,
                   registry_lock, QUEUE, compared>>

\* private_queries.write().await resolves: nobody holds the lock
AwaitWrite(r) ==
    /\ call[r].pc = "write_lock"
    /\ registry_lock = Unlocked
    /\ registry_lock' = [registry_lock EXCEPT !.writer = Some(r)]
    /\ call' = [call EXCEPT ![r] = [@ EXCEPT !.pc = "write_held"]]
    /\ UNCHANGED <<store, private_queries, pending, started, context_control, plugin, QUEUE, compared>>

\* .insert(query.to_string()); the statement ends
Insert(r) ==
    /\ call[r].pc = "write_held"
    /\ private_queries' = private_queries \cup {Req(r).query}
    /\ call' = [call EXCEPT ![r] = [@ EXCEPT !.pc = "done"]]
    /\ registry_lock' = Dropped(registry_lock, r)
    /\ UNCHANGED <<store, pending, started, context_control, plugin, QUEUE, compared>>

\* EntityCache::new on the configuration
New ==
    /\ ~IsSome(plugin.made)
    /\ plugin' = [plugin EXCEPT !.made = Some(new(plugin.config))]
    /\ UNCHANGED <<store, private_queries, pending, started, call, context_control,
                   registry_lock, QUEUE, compared>>

\* subgraph_service, for a subgraph that has none yet
SubgraphService(name) ==
    /\ IsSome(plugin.made)
    /\ Unwrap(plugin.made).kind = "ok"
    /\ ~IsSome(plugin.services[name])
    /\ plugin' = [plugin EXCEPT
                    !.services[name] = Some(subgraph_service(Unwrap(plugin.made), name))]
    /\ UNCHANGED <<store, private_queries, pending, started, call, context_control,
                   registry_lock, QUEUE, compared>>

\* a client request begins: its subgraph requests share a new Context, whose
\* extensions hold no CacheControl
NewContext ==
    /\ ~context_control.tracked
    /\ \A r \in Reqs : call[r].pc = "idle"
    /\ context_control' = [tracked |-> TRUE, control |-> None, all |-> None]
    /\ UNCHANGED <<store, private_queries, pending, started, call, plugin, registry_lock, QUEUE, compared>>

\* RedisCacheStorage::insert / insert_multiple, run by a detached task
Inserted(task) ==
    LET ks == {task.items[i].key : i \in 1..Len(task.items)}
        last(k) == CHOOSE i \in 1..Len(task.items) :
                      /\ task.items[i].key = k
                      /\ \A j \in 1..Len(task.items) : task.items[j].key = k => j <= i
    IN  [k \in DOMAIN store \cup ks |->
           IF k \in ks
           THEN [control |-> task.items[last(k)].control, data |-> task.items[last(k)].data,
                 by |-> task.items[last(k)].by, ttl |-> task.ttl]
           ELSE store[k]]

WriteBack ==
    /\ NoneDone
    /\ \E task \in pending :
         /\ store' = Inserted(task)
         /\ pending' = pending \ {task}
    /\ UNCHANGED <<private_queries, started, call, context_control, plugin, registry_lock, QUEUE, compared>>

\* a write-back that is cancelled at shutdown, or whose insert fails
DropWrite ==
    /\ NoneDone
    /\ \E task \in pending : pending' = pending \ {task}
    /\ UNCHANGED <<store, private_queries, started, call, context_control, plugin, registry_lock, QUEUE, compared>>

\* one second passes: every stored entry ages
Tick ==
    /\ NoneDone
    /\ \E k \in DOMAIN store : store[k].control.age < MaxAge
    /\ store' = [k \in DOMAIN store |->
                   [store[k] EXCEPT
                      !.control.age = Min(@ + 1, MaxAge),
                      !.ttl = IF IsSome(@) THEN Some(Max(Unwrap(@) - 1, 0)) ELSE @]]
    /\ UNCHANGED <<private_queries, pending, started, call, context_control, plugin, registry_lock, QUEUE, compared>>

\* the backend drops an entry whose TTL has elapsed
Expire ==
    /\ NoneDone
    /\ \E k \in DOMAIN store :
         /\ IsSome(store[k].ttl) /\ Unwrap(store[k].ttl) = 0
         /\ store' = [x \in DOMAIN store \ {k} |-> store[x]]
    /\ UNCHANGED <<private_queries, pending, started, call, context_control, plugin, registry_lock, QUEUE, compared>>

Next ==
    \/ \E r \in Reqs : Start(r, MaxCalls)
    \/ \E r \in Reqs : LookupRoot(r)
    \/ \E r \in Reqs : CallRoot(r)
    \/ \E r \in Reqs : LookupEntities(r)
    \/ \E r \in Reqs : CallEntities(r)
    \/ \E r \in Reqs : CallBypass(r)
    \/ \E r \in Reqs : Return(r)
    \/ WriteBack
    \/ DropWrite
    \/ Tick
    \/ Expire

Spec == Init /\ [][Next]_vars

\* one request at a time (the detached write-backs still run on their own)
SerialNext ==
    \/ Start(1, MaxSerialCalls)
    \/ LookupRoot(1)
    \/ CallRoot(1)
    \/ LookupEntities(1)
    \/ CallEntities(1)
    \/ CallBypass(1)
    \/ Return(1)
    \/ WriteBack
    \/ DropWrite
    \/ Tick
    \/ Expire

Serial == Init /\ [][SerialNext]_vars

\* one request at a time, over the requests of EdgeRequests and subgraph
\* responses that may carry an `invalidation` extension
EdgeNext ==
    \/ StartFrom(1, MaxEdgeCalls, EdgeRequests)
    \/ LookupRoot(1)
    \/ CallRootWith(1, Extensions, NoBrokenHeaders)
    \/ LookupEntities(1)
    \/ CallEntitiesWith(1, Extensions, NoBrokenHeaders, NoMoreErrors)
    \/ CallBypassWith(1, Extensions)
    \/ CallOtherWith(1, Extensions)
    \/ Return(1)
    \/ WriteBack
    \/ DropWrite
    \/ Tick
    \/ Expire

Edge == Init /\ [][EdgeNext]_vars

\* the same, the store and the subgraph answering every call in the end and
\* every future polled until it resolves
EdgeLive ==
    /\ Edge
    /\ WF_vars(LookupRoot(1))
    /\ WF_vars(CallRootWith(1, Extensions, NoBrokenHeaders))
    /\ WF_vars(LookupEntities(1))
    /\ WF_vars(CallEntitiesWith(1, Extensions, NoBrokenHeaders, NoMoreErrors))
    /\ WF_vars(CallBypassWith(1, Extensions))
    /\ WF_vars(CallOtherWith(1, Extensions))
    /\ WF_vars(Return(1))

\* concurrent requests whose subgraph responses may invalidate what the
\* write-backs in flight are about to store
InvalidationNext ==
    \/ \E r \in Reqs : StartFrom(r, MaxInvalidationCalls, InvalidationRequests)
    \/ \E r \in Reqs : LookupRoot(r)
    \/ \E r \in Reqs : CallRootWith(r, InvalidationExtensions, NoBrokenHeaders)
    \/ \E r \in Reqs : LookupEntities(r)
    \/ \E r \in Reqs : CallEntitiesWith(r, InvalidationExtensions, NoBrokenHeaders, NoMoreErrors)
    \/ \E r \in Reqs : CallOtherWith(r, InvalidationExtensions)
    \/ \E r \in Reqs : Return(r)
    \/ WriteBack
    \/ DropWrite
    \/ Tick
    \/ Expire

Invalidation == Init /\ [][InvalidationNext]_vars

\* one request at a time, with a store whose reads may fail and a subgraph
\* whose Cache-Control header may not parse or may outlive the subgraph TTL
FaultsNext ==
    \/ Start(1, MaxFaultCalls)
    \/ LookupRootWith(1, StoreFlaky)
    \/ CallRootWith(1, NoExtensions, BrokenHeaders \cup LongLivedHeaders)
    \/ LookupEntitiesWith(1, StoreFlaky)
    \/ CallEntitiesWith(1, NoExtensions, BrokenHeaders \cup LongLivedHeaders, NoMoreErrors)
    \/ CallBypass(1)
    \/ Return(1)
    \/ WriteBack
    \/ DropWrite
    \/ Tick
    \/ Expire

Faults == Init /\ [][FaultsNext]_vars

\* the subgraph requests of client requests, one at a time, the CacheControl
\* of the shared Context followed from the beginning of a client request on
AggregationNext ==
    \/ NewContext
    \/ StartFrom(1, MaxAggregationCalls, AggregationRequests)
    \/ LookupRoot(1)
    \/ CallRoot(1)
    \/ LookupEntities(1)
    \/ CallEntities(1)
    \/ CallBypass(1)
    \/ Return(1)
    \/ WriteBack
    \/ DropWrite
    \/ Tick
    \/ Expire

Aggregation == Init /\ [][AggregationNext]_vars

\* concurrent requests of two users and of nobody
IsolationNext ==
    \/ \E r \in Reqs : StartFrom(r, MaxIsolationCalls, IsolationRequests)
    \/ \E r \in Reqs : LookupRoot(r)
    \/ \E r \in Reqs : CallRoot(r)
    \/ \E r \in Reqs : LookupEntities(r)
    \/ \E r \in Reqs : CallEntities(r)
    \/ \E r \in Reqs : CallBypass(r)
    \/ \E r \in Reqs : Return(r)
    \/ WriteBack
    \/ DropWrite
    \/ Tick
    \/ Expire

Isolation == Init /\ [][IsolationNext]_vars

\* requests with several representations of one typename, one at a time
MetricsNext ==
    \/ StartFrom(1, MaxMetricsCalls, MetricsRequests)
    \/ LookupRoot(1)
    \/ CallRoot(1)
    \/ LookupEntities(1)
    \/ CallEntities(1)
    \/ CallBypass(1)
    \/ Return(1)
    \/ WriteBack
    \/ DropWrite
    \/ Tick
    \/ Expire

Metrics == Init /\ [][MetricsNext]_vars

\* one request at a time whose subgraph answers may carry stray errors
MergingNext ==
    \/ StartFrom(1, MaxMergingCalls, MetricsRequests)
    \/ LookupRoot(1)
    \/ CallRoot(1)
    \/ LookupEntities(1)
    \/ CallEntitiesWith(1, NoExtensions, NoBrokenHeaders, StrayErrors)
    \/ CallBypass(1)
    \/ Return(1)
    \/ WriteBack
    \/ DropWrite
    \/ Tick
    \/ Expire

Merging == Init /\ [][MergingNext]_vars

\* concurrent requests, the registry lock taken and dropped step by step
LockingNext ==
    \/ \E r \in Reqs : Enter(r)
    \/ \E r \in Reqs : AwaitRead(r)
    \/ \E r \in Reqs : Contains(r)
    \/ \E r \in Reqs : StoreAnswers(r)
    \/ \E r \in Reqs : SubgraphAnswers(r)
    \/ \E r \in Reqs : AwaitWrite(r)
    \/ \E r \in Reqs : Insert(r)
    \/ \E r \in Reqs : Return(r)

Locking == Init /\ [][LockingNext]_vars

\* any configuration, before the plugin is made
ConfigInit ==
    /\ store = EmptyObject
    /\ private_queries = {}
    /\ pending = {}
    /\ started = 0
    /\ call = [r \in Reqs |-> Idle]
    /\ context_control = Untracked
    /\ registry_lock = Unlocked
    /\ QUEUE = queue
    /\ compared = None
    /\ \E config \in Configs :
         plugin = [config |-> config, made |-> None,
                   services |-> [n \in SubgraphNames |-> None]]

\* the plugin is made from its configuration, then asked for services
ConfigNext ==
    \/ New
    \/ \E name \in SubgraphNames : SubgraphService(name)

Configuration == ConfigInit /\ [][ConfigNext]_vars

\* ------------------------------------------------------------------ properties
\* the calls that went through cache_lookup_entities and got their keys
OnEntityPath(r) ==
    /\ call[r].path = "lookup_entities"
    /\ call[r].pc \in {"call_entities", "done"}
    /\ Len(call[r].keys) = Len(Req(r).body.variables[REPRESENTATIONS].items)
    /\ (call[r].pc = "done" => Unwrap(call[r].response).kind
                                  \in {"ok", "MalformedResponse"})

\* the calls that went through cache_lookup_root
OnRootPath(r) ==
    /\ call[r].path = "lookup_root"
    /\ call[r].pc \in {"call_root", "done"}

Inbound(r) == Req(r).body.variables[REPRESENTATIONS].items

\* position i of the call got an entry from the store that can be used
Hit(r, i) == IsSome(call[r].got[i]) /\ CanUse(Unwrap(call[r].got[i]).control)

Misses(r) == {i \in 1..Len(Inbound(r)) : ~Hit(r, i)}
MissesBefore(r, i) == Cardinality({j \in Misses(r) : j < i})

\* the inbound representations without a usable hit, in order
RECURSIVE MissedUpTo(_, _)
MissedUpTo(r, n) ==
    IF n = 0 THEN <<>>
    ELSE IF Hit(r, n) THEN MissedUpTo(r, n - 1)
    ELSE Append(MissedUpTo(r, n - 1), Inbound(r)[n])

HasEntities(data) ==
    IsSome(data) /\ IsObject(Unwrap(data)) /\ ENTITIES \in DOMAIN Unwrap(data).fields
    /\ IsArray(Unwrap(data).fields[ENTITIES])
EntitiesOf(data) == Unwrap(data).fields[ENTITIES].items

\* the call returned a response assembled by the cache: from hits alone, or
\* by merging the hits with the _entities of the upstream response
ReturnedMerged(r) ==
    /\ OnEntityPath(r)
    /\ call[r].pc = "done"
    /\ Unwrap(call[r].response).kind = "ok"
    /\ (call[r].calls = 0 \/ HasEntities(Unwrap(call[r].upstream).data))

UpstreamEntities(r) ==
    IF call[r].calls = 0 THEN <<>> ELSE EntitiesOf(Unwrap(call[r].upstream).data)

\* the items of the write-back a call spawned
WrittenItems(r) ==
    IF IsSome(call[r].written)
    THEN {Unwrap(call[r].written).items[i] : i \in 1..Len(Unwrap(call[r].written).items)}
    ELSE {}

\* C1: a response assembled on the entity path has one entity per inbound
\* representation; a position with a usable hit carries the stored payload,
\* any other position carries the upstream entity whose index is the number
\* of misses before it.
C1_MergedEntitiesAligned ==
    \A r \in Reqs :
        ReturnedMerged(r) =>
            /\ HasEntities(Unwrap(call[r].response).data)
            /\ Len(EntitiesOf(Unwrap(call[r].response).data)) = Len(Inbound(r))
            /\ \A i \in 1..Len(Inbound(r)) :
                 EntitiesOf(Unwrap(call[r].response).data)[i] =
                    IF Hit(r, i)
                    THEN Unwrap(call[r].got[i]).data
                    ELSE UpstreamEntities(r)[MissesBefore(r, i) + 1]

\* C1 witness: a merged response with a hit first and a miss second
C1_Witness ==
    \E r \in Reqs :
        /\ ReturnedMerged(r)
        /\ call[r].calls = 1
        /\ Len(Inbound(r)) = 2
        /\ Hit(r, 1) /\ ~Hit(r, 2)

\* C2: no call whose (merged) response Cache-Control is private and that has
\* no user id spawns a write; no private entry waits for the store or sits in
\* it without the user id of its writer.
C2_NoPrivateWriteWithoutScope ==
    /\ \A r \in Reqs :
         (/\ call[r].pc = "done"
          /\ IsSome(call[r].cache_control)
          /\ IsPrivate(Unwrap(call[r].cache_control))
          /\ ~IsSome(PrivateId(r)))
         => ~IsSome(call[r].written)
    /\ \A task \in pending : \A i \in 1..Len(task.items) :
         IsPrivate(task.items[i].control)
         => IsSome(task.items[i].by.fingerprint.private_id)
    /\ \A k \in DOMAIN store :
         IsPrivate(store[k].control) => IsSome(store[k].by.fingerprint.private_id)

\* C2 witness: an _entities response that is private and storable, entities
\* fetched without error, for a request without user id
C2_Witness ==
    \E r \in Reqs :
        /\ ReturnedMerged(r)
        /\ call[r].calls = 1
        /\ IsPrivate(Unwrap(call[r].cache_control))
        /\ ~Unwrap(call[r].cache_control).no_store
        /\ ~IsSome(PrivateId(r))
        /\ Unwrap(call[r].upstream).errors = <<>>

\* C3: a call whose response Cache-Control (merged, on the entity path) has
\* no_store spawns no insert and no insert_multiple.
C3_NoStoreNoWrite ==
    \A r \in Reqs :
        (/\ call[r].pc = "done"
         /\ IsSome(call[r].cache_control)
         /\ Unwrap(call[r].cache_control).no_store)
        => ~IsSome(call[r].written)

\* C3 witness: an _entities response with no-store, entities fetched without
\* error
C3_Witness ==
    \E r \in Reqs :
        /\ ReturnedMerged(r)
        /\ call[r].calls = 1
        /\ Unwrap(call[r].cache_control).no_store
        /\ IsSome(Unwrap(call[r].upstream).headers)
        /\ Unwrap(call[r].upstream).errors = <<>>

\* C4: an entry the store returned whose control fails can_use, or a key the
\* store has nothing for, is never used: on the root path the request goes
\* upstream; on the entity path the position is a miss, its representation is
\* in the forwarded request, and the response does not come from hits alone.
C4_StaleNeverServed ==
    \A r \in Reqs :
        /\ (OnRootPath(r) /\ ~Hit(r, 1))
           => (call[r].pc = "call_root" \/ call[r].calls = 1)
        /\ OnEntityPath(r)
           => \A i \in Misses(r) :
                /\ ~IsSome(call[r].result[i].cache_entry)
                /\ IsSome(call[r].forwarded)
                /\ \E j \in 1..Len(Unwrap(call[r].forwarded).variables[REPRESENTATIONS].items) :
                     Unwrap(call[r].forwarded).variables[REPRESENTATIONS].items[j]
                        = Inbound(r)[i]
                /\ (call[r].pc = "call_entities" \/ call[r].calls = 1)

\* C4 witness: the store returned a stale entry on the root path
C4_Witness ==
    \E r \in Reqs :
        /\ OnRootPath(r)
        /\ IsSome(call[r].got[1])
        /\ ~CanUse(Unwrap(call[r].got[1]).control)

\* the merge of the controls of the hits at positions 1..n
RECURSIVE HitControls(_, _)
HitControls(r, n) ==
    IF n = 1 THEN Unwrap(call[r].got[1]).control
    ELSE Merge(HitControls(r, n - 1), Unwrap(call[r].got[n]).control)

AllHit(r) == OnEntityPath(r) /\ Len(Inbound(r)) > 0 /\ Misses(r) = {}

\* C5: when every representation of a non-empty list has a usable hit, the
\* subgraph is not called; the response carries the hit payloads in input
\* order and the Cache-Control of the merge of the hits' controls.
C5_FullHitServedLocally ==
    \A r \in Reqs :
        AllHit(r) =>
            /\ call[r].pc = "done"
            /\ call[r].calls = 0
            /\ ~IsSome(call[r].forwarded)
            /\ Unwrap(call[r].response).kind = "ok"
            /\ Unwrap(call[r].response).data =
                  Some(Obj([_entities |->
                     Arr([i \in 1..Len(Inbound(r)) |-> Unwrap(call[r].got[i]).data])]))
            /\ Unwrap(call[r].response).headers =
                  Some(ToHeaders(HitControls(r, Len(Inbound(r)))))

\* C5 witness: a full hit on two representations, the second hit private and
\* the first not
C5_Witness ==
    \E r \in Reqs :
        /\ AllHit(r)
        /\ Len(Inbound(r)) = 2
        /\ ~IsPrivate(Unwrap(call[r].got[1]).control)
        /\ IsPrivate(Unwrap(call[r].got[2]).control)

\* C6: on a miss of the entity path the forwarded request is the inbound one
\* with `representations` replaced by the representations without a usable
\* hit, in order and unchanged (with their __typename).
C6_ForwardsExactlyTheMisses ==
    \A r \in Reqs :
        (OnEntityPath(r) /\ Misses(r) # {}) =>
            /\ IsSome(call[r].forwarded)
            /\ Unwrap(call[r].forwarded) =
                  [Req(r).body EXCEPT
                     !.variables = [x \in DOMAIN Req(r).body.variables |->
                                      IF x = REPRESENTATIONS
                                      THEN Arr(MissedUpTo(r, Len(Inbound(r))))
                                      ELSE Req(r).body.variables[x]]]

\* C6 witness: a request forwarded with one representation of two
C6_Witness ==
    \E r \in Reqs :
        /\ OnEntityPath(r)
        /\ call[r].pc = "call_entities"
        /\ Len(Inbound(r)) = 2
        /\ Hit(r, 1) /\ ~Hit(r, 2)
        /\ "first" \in DOMAIN Unwrap(call[r].forwarded).variables

\* the 1-based position of the miss with residual index k
MissAt(r, k) == CHOOSE i \in Misses(r) : MissesBefore(r, i) = k

\* the error with the second element of its path set to index m
Rewritten(error, m) ==
    [message |-> error.message,
     path |-> Some(<<PKey(ENTITIES), PIndex(m)>>
                   \o SubSeq(Unwrap(error.path), 3, Len(Unwrap(error.path))))]

InSeq(x, seq) == \E i \in 1..Len(seq) : seq[i] = x

\* C7: in a merged response, an upstream error whose path begins
\* ["_entities", k], k the residual index of a miss at merged position m,
\* appears with the index rewritten to m, and position m is not written.
C7_ErrorsFollowTheirEntity ==
    \A r \in Reqs :
        (ReturnedMerged(r) /\ call[r].calls = 1) =>
            \A n \in 1..Len(Unwrap(call[r].upstream).errors) :
              \A k \in 0..(Cardinality(Misses(r)) - 1) :
                PointsAt(Unwrap(call[r].upstream).errors[n], k) =>
                    /\ InSeq(Rewritten(Unwrap(call[r].upstream).errors[n],
                                       MissAt(r, k) - 1),
                             Unwrap(call[r].response).errors)
                    /\ \A item \in WrittenItems(r) :
                         item.by.fingerprint.representation
                            # Some(Inbound(r)[MissAt(r, k)])

\* C7 witness: an error on residual index 0 whose entity is at merged
\* position 1, in a response that is otherwise storable
C7_Witness ==
    \E r \in Reqs :
        /\ ReturnedMerged(r)
        /\ call[r].calls = 1
        /\ Len(Inbound(r)) = 2
        /\ Hit(r, 1) /\ ~Hit(r, 2)
        /\ Unwrap(call[r].upstream).errors # <<>>
        /\ PointsAt(Unwrap(call[r].upstream).errors[1], 0)
        /\ ~Unwrap(call[r].cache_control).no_store

\* the calls that have been given their lookup keys
HasKeys(r) == OnRootPath(r) \/ OnEntityPath(r)

\* the fingerprint behind the i-th lookup key of a call
FingerprintAt(r, i) ==
    IF call[r].path = "lookup_root"
    THEN Fingerprint(Req(r), None)
    ELSE Fingerprint(Req(r), Some(Inbound(r)[i]))

\* the entries written for the fingerprint of position i that were in the
\* store, usable, from the start of the call to its lookup
SeenFor(r, i) == {p \in call[r].seen : p[2].by.fingerprint = FingerprintAt(r, i)}

\* C8: store then get.  When a call starts after an entry was written for its
\* fingerprint and user id (the registry as that write left it), and the
\* entry is still there and usable at the lookup, the call looks up the key
\* of that entry and gets it; when that is so for each of its positions, it
\* is answered without an upstream call.
C8_StoreThenGet ==
    \A r \in Reqs :
        HasKeys(r) =>
            /\ \A i \in 1..Len(call[r].keys) : \A p \in SeenFor(r, i) :
                 /\ call[r].keys[i] = p[1]
                 /\ call[r].got[i] = Some(p[2])
            /\ (/\ Len(call[r].keys) > 0
                /\ \A i \in 1..Len(call[r].keys) : SeenFor(r, i) # {})
               => (call[r].pc = "done" /\ call[r].calls = 0)

\* C9: every key the root path writes is subgraph:S:type:T:hash:Q:data:D,
\* followed by the user id, once, exactly when the response is private.
C9_RootKeyForm ==
    \A r \in Reqs :
        (OnRootPath(r) /\ call[r].pc = "done") =>
            \A item \in WrittenItems(r) :
                /\ Len(item.key) \in {8, 9}
                /\ item.key[1] = <<"subgraph">> /\ item.key[2] = <<Req(r).subgraph_name>>
                /\ item.key[3] = <<"type">> /\ item.key[4] = <<"Query">>
                /\ item.key[5] = <<"hash">> /\ item.key[7] = <<"data">>
                /\ Len(item.key) = 9 => Some(item.key[9]) = PrivateId(r)
                /\ IsPrivate(item.control) => Len(item.key) = 9

\* C10, as claimed: two calls are given the same lookup key for equal
\* fingerprints.
C10_EqualFingerprintsEqualKeys ==
    \A r1 \in Reqs, r2 \in Reqs :
        (HasKeys(r1) /\ HasKeys(r2)) =>
            \A i \in 1..Len(call[r1].keys), j \in 1..Len(call[r2].keys) :
                FingerprintAt(r1, i) = FingerprintAt(r2, j)
                => call[r1].keys[i] = call[r2].keys[j]

\* C10, amended: two calls are given the same lookup key for equal
\* fingerprints when the query was in the private-query registry at the start
\* of both or of neither.
C10_EqualFingerprintsSameRegistryEqualKeys ==
    \A r1 \in Reqs, r2 \in Reqs :
        (HasKeys(r1) /\ HasKeys(r2)
         /\ call[r1].is_known_private = call[r2].is_known_private) =>
            \A i \in 1..Len(call[r1].keys), j \in 1..Len(call[r2].keys) :
                FingerprintAt(r1, i) = FingerprintAt(r2, j)
                => call[r1].keys[i] = call[r2].keys[j]

\* C10 witness: two calls with different representation lists hold a key for
\* the same fingerprint
C10_Witness ==
    \E r1 \in Reqs, r2 \in Reqs :
        /\ HasKeys(r1) /\ HasKeys(r2)
        /\ call[r1].is_known_private = call[r2].is_known_private
        /\ Req(r1) # Req(r2)
        /\ \E i \in 1..Len(call[r1].keys), j \in 1..Len(call[r2].keys) :
             /\ i # j
             /\ FingerprintAt(r1, i) = FingerprintAt(r2, j)

\* the call went upstream on the root or the entity path and has its response
Forwarded(r) ==
    /\ call[r].pc = "done"
    /\ call[r].path \in {"lookup_root", "lookup_entities"}
    /\ call[r].calls = 1
    /\ IsSome(call[r].cache_control)

\* C11: when a forwarded request, root or entity, ends with a private
\* Cache-Control and its query was not in the registry, the query is in the
\* registry when the response is returned; without a user id nothing is
\* written, and the root path returns the upstream response as it came.
C11_PrivateQueryLearned ==
    \A r \in Reqs :
        (/\ Forwarded(r)
         /\ IsPrivate(Unwrap(call[r].cache_control))
         /\ ~call[r].is_known_private)
        => /\ Req(r).query \in private_queries
           /\ ~IsSome(PrivateId(r))
              => /\ ~IsSome(call[r].written)
                 /\ call[r].path = "lookup_root"
                    => call[r].response = Some(Verbatim(Unwrap(call[r].upstream)))

\* C11 witness: an entity request without user id whose response is private
\* and storable, the query not known before
C11_Witness ==
    \E r \in Reqs :
        /\ Forwarded(r)
        /\ call[r].path = "lookup_entities"
        /\ IsPrivate(Unwrap(call[r].cache_control))
        /\ ~Unwrap(call[r].cache_control).no_store
        /\ ~call[r].is_known_private
        /\ ~IsSome(PrivateId(r))
        /\ Unwrap(call[r].response).kind = "ok"

\* C12: the registry is empty at start, never loses a query, and gains a query
\* only in the step in which a forwarded request for that query gets a
\* response whose Cache-Control is private.
C12_RegistryOnlyGrows ==
    /\ private_queries = {}
    /\ [][/\ private_queries \subseteq private_queries'
          /\ \A q \in private_queries' \ private_queries :
               \E r \in Reqs :
                   /\ call[r].pc \in {"call_root", "call_entities"}
                   /\ call'[r].pc = "done"
                   /\ Unwrap(call'[r].request).query = q
                   /\ IsPrivate(Unwrap(call'[r].cache_control))]_vars

\* C12 witness: a query is in the registry while a later request for it runs
C12_Witness ==
    \E r \in Reqs :
        /\ call[r].pc # "idle"
        /\ call[r].is_known_private
        /\ Req(r).query \in private_queries

\* the calls on the entity path whose `representations` is the empty list
EmptyRepresentations(r) ==
    /\ call[r].path = "lookup_entities"
    /\ IsArray(Req(r).body.variables[REPRESENTATIONS])
    /\ Req(r).body.variables[REPRESENTATIONS].items = <<>>

\* C17: empty representations list.  A call on the entity path whose
\* `representations` is the empty list ends without a read of the store and
\* without a call of the subgraph, with `_entities = []` and a Cache-Control
\* whose no_store is set.
C17_EmptyListContactsNothing ==
    \A r \in Reqs :
        (call[r].pc = "done" /\ EmptyRepresentations(r))
           => /\ call[r].reads = 0
              /\ call[r].calls = 0
              /\ Unwrap(call[r].response).data = Some(Obj([_entities |-> Arr(<<>>)]))
              /\ Unwrap(Unwrap(call[r].response).headers).no_store

\* the calls on the entity path whose subgraph answered with an `_entities`
\* array shorter than the list of representations it was sent
ShortOfEntities(r) ==
    /\ call[r].pc = "done"
    /\ call[r].path = "lookup_entities"
    /\ call[r].calls = 1
    /\ LET data == Unwrap(call[r].upstream).data
           sent == Unwrap(call[r].forwarded).variables[REPRESENTATIONS].items
       IN  /\ IsSome(data)
           /\ IsObject(Unwrap(data))
           /\ ENTITIES \in DOMAIN Unwrap(data).fields
           /\ IsArray(Unwrap(data).fields[ENTITIES])
           /\ Len(Unwrap(data).fields[ENTITIES].items) < Len(sent)

\* C18: mismatched residual count.  When the subgraph returns fewer entities
\* than the representations that missed, the call fails with a malformed
\* response error and schedules no write: no task is spawned by it.
C18_ShortResponseFailsUnwritten ==
    \A r \in Reqs :
        ShortOfEntities(r)
           => /\ Unwrap(call[r].response).kind = "MalformedResponse"
              /\ call[r].written = None

\* a storable response with one entity for two misses has failed
C18_Witness ==
    \E r \in Reqs :
        /\ ShortOfEntities(r)
        /\ Len(Unwrap(Unwrap(call[r].upstream).data).fields[ENTITIES].items) = 1
        /\ ShouldStore(Unwrap(call[r].cache_control))
        /\ Unwrap(call[r].response).kind = "MalformedResponse"

\* the calls that got a subgraph response with an `invalidation` extension
GotInvalidation(r) ==
    /\ call[r].pc = "done"
    /\ call[r].calls = 1
    /\ IsSome(Unwrap(call[r].upstream).extensions)

\* C14: the invalidation extension is consumed.  Whenever a subgraph response
\* carries an `invalidation` extension, the response returned to the caller
\* has it no more and its content was handed to handle_invalidation, on every
\* path of call_inner.
C14_InvalidationConsumed ==
    \A r \in Reqs :
        GotInvalidation(r)
           => /\ Unwrap(call[r].response).kind = "ok"
                    => Unwrap(call[r].response).extensions = None
              /\ call[r].invalidated = Unwrap(call[r].upstream).extensions

\* C15: operations that are not queries bypass the cache.  A call whose
\* operation kind is not Query reads nothing from the store, schedules no
\* write, is forwarded to the subgraph, and has the `invalidation` extension
\* of the response handed to handle_invalidation, whatever its variables.
C15_NonQueryBypassesCache ==
    \A r \in Reqs :
        (call[r].pc = "done" /\ Req(r).operation_kind # "Query")
           => /\ call[r].reads = 0
              /\ call[r].written = None
              /\ call[r].calls = 1
              /\ call[r].invalidated = Unwrap(call[r].upstream).extensions

\* the steps of a batched call
BatchedStep(r) ==
    /\ call'[r] # call[r]
    /\ \/ IsSome(call[r].request) /\ Req(r).batch
       \/ IsSome(call'[r].request) /\ Unwrap(call'[r].request).batch

\* C16: batched requests bypass the cache.  A call for a request marked as
\* part of a batch ends having read nothing from the store and scheduled no
\* write, without having read the registry, having called the subgraph once
\* with the request body as it came, and returns the subgraph response with
\* its body and Cache-Control header as they came; none of its steps changes
\* the store, the registry or the write-backs in flight.
C16_BatchBypassesCache ==
    /\ [](\A r \in Reqs :
            (call[r].pc = "done" /\ Req(r).batch)
               => /\ call[r].reads = 0
                  /\ call[r].written = None
                  /\ ~call[r].registry_read
                  /\ call[r].calls = 1
                  /\ call[r].forwarded = Some(Req(r).body)
                  /\ call[r].response = Some(Verbatim(Unwrap(call[r].upstream))))
    /\ [][\A r \in Reqs :
            BatchedStep(r) => UNCHANGED <<store, private_queries, pending>>]_vars

\* a batched _entities query, whose query is in the registry, got a private
\* response with an `invalidation` extension
C16_Witness ==
    \E r \in Reqs :
        /\ call[r].pc = "done"
        /\ Req(r).batch
        /\ Req(r).operation_kind = "Query"
        /\ Req(r).query \in private_queries
        /\ REPRESENTATIONS \in DOMAIN Req(r).body.variables
        /\ IsSome(Unwrap(call[r].upstream).headers)
        /\ Unwrap(Unwrap(call[r].upstream).headers).private
        /\ IsSome(Unwrap(call[r].upstream).extensions)

\* the calls on the entity path with a representation that is not an object
\* or has no __typename
MalformedRepresentation(request) ==
    /\ ~request.batch
    /\ REPRESENTATIONS \in DOMAIN request.body.variables
    /\ IsArray(request.body.variables[REPRESENTATIONS])
    /\ \E i \in 1..Len(request.body.variables[REPRESENTATIONS].items) :
          LET representation == request.body.variables[REPRESENTATIONS].items[i]
          IN  ~(IsObject(representation) /\ TYPENAME \in DOMAIN representation.fields)

\* C19: a representation without __typename is a fatal request error.  A
\* call on the entity path with such a representation (or one that is not an
\* object) ends with MalformedRequest, without a read of the store, a call
\* of the subgraph or a scheduled write; none of its steps changes the
\* store, the registry or the write-backs in flight.
C19_MalformedRepresentationFailsEarly ==
    /\ [](\A r \in Reqs :
            (/\ call[r].pc = "done"
             /\ call[r].path = "lookup_entities"
             /\ MalformedRepresentation(Req(r)))
               => /\ Unwrap(call[r].response).kind = "MalformedRequest"
                  /\ call[r].reads = 0
                  /\ call[r].calls = 0
                  /\ call[r].written = None)
    /\ [][\A r \in Reqs :
            (/\ call'[r] # call[r]
             /\ call[r].path = "lookup_entities"
             /\ MalformedRepresentation(Req(r)))
               => UNCHANGED <<store, private_queries, pending>>]_vars

\* a request whose first representation is well formed and in the store, and
\* whose second is no object, has failed
C19_Witness ==
    \E r \in Reqs :
        /\ call[r].pc = "done"
        /\ call[r].path = "lookup_entities"
        /\ MalformedRepresentation(Req(r))
        /\ Len(Req(r).body.variables[REPRESENTATIONS].items) = 2
        /\ call[r].seen # {}
        /\ Unwrap(call[r].response).kind = "MalformedRequest"

\* the requests whose `representations` variable is not an array
NonArrayRepresentations(request) ==
    /\ REPRESENTATIONS \in DOMAIN request.body.variables
    /\ ~IsArray(request.body.variables[REPRESENTATIONS])

\* C20: `representations` that is not an array.  A call for a request whose
\* `representations` variable is null, an object, a string or a number never
\* panics; on the entity path it ends with MalformedRequest or as for an
\* empty list of representations.
C20_NonArrayNeverPanics ==
    \A r \in Reqs :
        (call[r].pc = "done" /\ NonArrayRepresentations(Req(r)))
           => /\ Unwrap(call[r].response).kind # "panic"
              /\ call[r].path = "lookup_entities"
                    => \/ Unwrap(call[r].response).kind = "MalformedRequest"
                       \/ /\ Unwrap(call[r].response).kind = "ok"
                          /\ Unwrap(call[r].response).data
                                = Some(Obj([_entities |-> Arr(<<>>)]))

\* the entries a lookup of the call got from the store
Got(r) == {Unwrap(call[r].got[i]) : i \in {j \in 1..Len(call[r].got) : IsSome(call[r].got[j])}}

\* C13: invalidation against the detached write-backs.  Once an invalidation
\* of {subgraph, type} has completed, no lookup gets, under a key of that
\* prefix, an entry written by a request whose subgraph response had been
\* received before the invalidation, however the write-backs of concurrent
\* requests interleave with it.
C13_NoEntryFromBeforeInvalidation ==
    \A r \in Reqs : \A entry \in Got(r) : ~entry.by.overtaken

\* the calls whose subgraph response had a Cache-Control header that does not
\* parse, on the root path or the entity path
GotBrokenHeader(r) ==
    /\ call[r].pc = "done"
    /\ call[r].path \in {"lookup_root", "lookup_entities"}
    /\ call[r].calls = 1
    /\ ParseFails(Unwrap(call[r].upstream).headers)

\* C21: a Cache-Control header that does not parse is taken as no_store.
\* When the subgraph response has such a header, the call still succeeds
\* with the data of the subgraph and schedules no write, on the root path
\* and on the entity path.
C21_BrokenHeaderIsNoStore ==
    \A r \in Reqs :
        GotBrokenHeader(r)
           => /\ Unwrap(call[r].response).kind = "ok"
              /\ call[r].written = None

\* the calls forwarded to the subgraph whose response had no Cache-Control
\* header
GotNoHeader(r) ==
    /\ call[r].pc = "done"
    /\ call[r].path \in {"lookup_root", "lookup_entities"}
    /\ call[r].calls = 1
    /\ Unwrap(call[r].upstream).headers = None

\* C22: a missing Cache-Control header is no_store before any merge.  When
\* the subgraph response has no Cache-Control header, the Cache-Control of
\* the call has no_store, whatever the controls of the cache hits merged
\* into it, and the call schedules no write, on the entity path and on the
\* root path.
C22_MissingHeaderNotStored ==
    \A r \in Reqs :
        GotNoHeader(r)
           => /\ Unwrap(call[r].cache_control).no_store
              /\ call[r].written = None

\* a partial hit on a storable entry, the other entity fetched without error
\* from a subgraph that sent no header
C22_Witness ==
    \E r \in Reqs :
        /\ GotNoHeader(r)
        /\ OnEntityPath(r)
        /\ Len(Inbound(r)) = 2
        /\ Hit(r, 1) /\ ~Hit(r, 2)
        /\ ShouldStore(Unwrap(call[r].got[1]).control)
        /\ Unwrap(call[r].response).kind = "ok"
        /\ HasEntities(Unwrap(call[r].upstream).data)
        /\ Unwrap(call[r].upstream).errors = <<>>

\* the calls whose read of the store failed
ReadFailed(r) == call[r].pc \in {"call_root", "call_entities", "done"} /\ call[r].read_failed

\* C23: a failing store never fails the request.  A call whose read of the
\* store failed has no hit at any position and forwards its request whole
\* (a request without representations has nothing to forward and is answered
\* with no entities); a call that scheduled a write has returned its
\* response, and the loss of a scheduled write changes no call.
C23_StoreFailureNeverFailsRequest ==
    /\ [](\A r \in Reqs :
            /\ ReadFailed(r)
                  => /\ \A i \in 1..Len(call[r].got) : call[r].got[i] = None
                     /\ \/ call[r].forwarded = Some(Req(r).body)
                        \/ /\ call[r].path = "lookup_entities"
                           /\ Inbound(r) = <<>>
                           /\ Unwrap(call[r].response).kind = "ok"
            /\ IsSome(call[r].written) => Unwrap(call[r].response).kind = "ok")
    /\ [][(pending' # pending /\ pending' \subseteq pending /\ store' = store)
             => call' = call]_vars

\* the store held usable entries for both representations of a request, the
\* read failed, and the request went to the subgraph whole
C23_Witness ==
    \E r \in Reqs :
        /\ ReadFailed(r)
        /\ call[r].path = "lookup_entities"
        /\ Len(Inbound(r)) = 2
        /\ Cardinality({p[2].by.fingerprint : p \in call[r].seen}) = 2
        /\ call[r].pc = "call_entities"
        /\ Len(Unwrap(call[r].forwarded).variables[REPRESENTATIONS].items) = 2

\* C24: the TTL of a write.  A write is scheduled with the smaller of the TTL
\* of the response Cache-Control and the TTL configured for the subgraph,
\* when there are both.
C24_TtlIsTheSmaller ==
    \A r \in Reqs :
        (/\ call[r].pc = "done"
         /\ IsSome(call[r].written)
         /\ IsSome(Ttl(Unwrap(call[r].cache_control)))
         /\ IsSome(subgraph_ttl))
           => Unwrap(call[r].written).ttl
                 = Some(Min(Unwrap(Ttl(Unwrap(call[r].cache_control))), Unwrap(subgraph_ttl)))

\* C25: what the root path stores.  A call on the root path schedules a write
\* only when the body of the subgraph response has data, its errors are
\* empty and its Cache-Control allows the store; the entry written is that
\* data.
C25_RootStoresOnlyCleanData ==
    \A r \in Reqs :
        (call[r].pc = "done" /\ call[r].path = "lookup_root" /\ IsSome(call[r].written))
           => /\ IsSome(Unwrap(call[r].upstream).data)
              /\ Unwrap(call[r].upstream).errors = <<>>
              /\ ShouldStore(Unwrap(call[r].cache_control))
              /\ Len(Unwrap(call[r].written).items) = 1
              /\ Unwrap(call[r].written).items[1].data = Unwrap(Unwrap(call[r].upstream).data)

\* a storable root response with data and an error was returned and not stored
C25_Witness ==
    \E r \in Reqs :
        /\ call[r].pc = "done"
        /\ call[r].path = "lookup_root"
        /\ call[r].calls = 1
        /\ IsSome(Unwrap(call[r].upstream).data)
        /\ Unwrap(call[r].upstream).errors # <<>>
        /\ ShouldStore(Unwrap(call[r].cache_control))
        /\ ~IsPrivate(Unwrap(call[r].cache_control))
        /\ call[r].written = None
        /\ Unwrap(call[r].response).kind = "ok"

\* the Cache-Control of the subgraph response of the call, no_store without
\* header, merged with the control of the hits among the first n positions
RECURSIVE MergedWithHits(_, _)
MergedWithHits(r, n) ==
    IF n = 0
    THEN IF IsSome(Unwrap(call[r].upstream).headers)
         THEN CacheControlNew(Unwrap(Unwrap(call[r].upstream).headers), storage_ttl)
         ELSE CacheControlNoStore
    ELSE IF Hit(r, n)
    THEN Merge(MergedWithHits(r, n - 1), Unwrap(call[r].got[n]).control)
    ELSE MergedWithHits(r, n - 1)

\* the calls on the entity path that fetched their misses and returned a
\* merged response
PartialMiss(r) ==
    /\ OnEntityPath(r)
    /\ call[r].pc = "done"
    /\ call[r].calls = 1
    /\ Unwrap(call[r].response).kind = "ok"

\* C26: the Cache-Control of a partial miss.  The Cache-Control header of the
\* response is the merge of the Cache-Control of the subgraph response
\* (no_store without header) with the controls of all the hits of the call,
\* and every fetched entity that is stored is stored with that control.
C26_MergedControlReturnedAndStored ==
    \A r \in Reqs :
        PartialMiss(r)
           => /\ Unwrap(call[r].response).headers
                    = Some(ToHeaders(MergedWithHits(r, Len(Inbound(r)))))
              /\ IsSome(call[r].written)
                    => \A i \in 1..Len(Unwrap(call[r].written).items) :
                          Unwrap(call[r].written).items[i].control
                             = MergedWithHits(r, Len(Inbound(r)))

\* a private hit and a miss fetched from a response that is not private: the
\* fetched entity is stored
C26_Witness ==
    \E r \in Reqs :
        /\ PartialMiss(r)
        /\ Len(Inbound(r)) = 2
        /\ Hit(r, 1) /\ ~Hit(r, 2)
        /\ IsPrivate(Unwrap(call[r].got[1]).control)
        /\ IsSome(Unwrap(call[r].upstream).headers)
        /\ ~Unwrap(Unwrap(call[r].upstream).headers).private
        /\ IsSome(call[r].written)

\* C27: the CacheControl held in the shared Context once the subgraph
\* requests made so far have completed is the merge of the Cache-Control of
\* every subgraph response, cached or fetched: when one of them is no_store
\* or private, so is the aggregate
C27_ContextHoldsMergeOfAll ==
    (context_control.tracked /\ \A r \in Reqs : call[r].pc = "idle") =>
        (IsSome(context_control.all) =>
            /\ IsSome(context_control.control)
            /\ Unwrap(context_control.all).no_store =>
                 Unwrap(context_control.control).no_store
            /\ Unwrap(context_control.all).private =>
                 Unwrap(context_control.control).private)

\* the configuration gives the subgraph name no TTL: none in its effective
\* entry (its own, or else `all`) and none globally
NoResolvableTtl(name) ==
    /\ ~IsSome(ConfigGet(plugin.config.subgraph, name).ttl)
    /\ ~IsSome(plugin.config.redis.ttl)

\* C28: EntityCache::new fails whenever some subgraph name has no resolvable
\* TTL, and when it succeeds every subgraph_ttl that subgraph_service
\* computes is a TTL
C28_InitFailsWithoutTtl ==
    IsSome(plugin.made) =>
        /\ (\E name \in SubgraphNames : NoResolvableTtl(name)) =>
              Unwrap(plugin.made).kind = "err"
        /\ \A name \in SubgraphNames :
              (IsSome(plugin.services[name]) /\ Unwrap(plugin.services[name]).computed) =>
                  IsSome(Unwrap(plugin.services[name]).subgraph_ttl)

\* C29: the `enabled` of the subgraph's entry overrides the global switch:
\* caching is active for the subgraph iff the entry says so when it says
\* anything, and iff the global switch is on when it does not
C29_SubgraphEnabledOverrides ==
    \A name \in SubgraphNames :
        (IsSome(plugin.services[name]) /\ Unwrap(plugin.services[name]).computed) =>
            LET e == ConfigGet(plugin.config.subgraph, name).enabled
                g == plugin.config.enabled
            IN  Unwrap(plugin.services[name]).subgraph_enabled =
                    (IF IsSome(e) THEN Unwrap(e) ELSE g)

\* the typenames in the catalog, and "Query" of the root path
Typenames == {AsStrOr(Catalog[i].fields[TYPENAME], "-") : i \in 1..Len(Catalog)}

\* the representations the request of r came with
Representations(r) == Req(r).body.variables[REPRESENTATIONS].items

\* the representations call r sends, or is about to send, to the subgraph
SentUpstream(r) ==
    IF IsSome(call[r].forwarded)
    THEN Unwrap(call[r].forwarded).variables[REPRESENTATIONS].items
    ELSE <<>>

\* what the context of call r records for typename t, nothing being 0 and 0
Recorded(r, t) ==
    IF t \in DOMAIN Unwrap(call[r].cache_hit)
    THEN Unwrap(call[r].cache_hit)[t]
    ELSE [hit |-> 0, miss |-> 0]

\* call r is on the entity path and its counters are in the context
CountedEntities(r) ==
    /\ IsSome(call[r].cache_hit)
    /\ REPRESENTATIONS \in DOMAIN Req(r).body.variables

\* call r is on the root path and its counters are in the context
CountedRoot(r) ==
    /\ IsSome(call[r].cache_hit)
    /\ REPRESENTATIONS \notin DOMAIN Req(r).body.variables

\* C30: the hit/miss counters in the request context are exact: per typename
\* the hits are the representations served from a usable cache entry and the
\* misses are the representations forwarded upstream, together all the
\* representations; the root path records one hit or one miss under "Query"
C30_CountersAreExact ==
    \A r \in Reqs :
        /\ CountedEntities(r) =>
             /\ \A t \in Typenames :
                  /\ Recorded(r, t).hit =
                       Cardinality({i \in 1..Len(Representations(r)) :
                           /\ Representations(r)[i].fields[TYPENAME] = Str(t)
                           /\ Usable(call[r].got[i])})
                  /\ Recorded(r, t).miss =
                       Cardinality({j \in 1..Len(SentUpstream(r)) :
                           SentUpstream(r)[j].fields[TYPENAME] = Str(t)})
             /\ DOMAIN Unwrap(call[r].cache_hit) \subseteq Typenames
             /\ Len(Representations(r)) =
                  Recorded(r, "Product").hit + Recorded(r, "Product").miss
                  + Recorded(r, "User").hit + Recorded(r, "User").miss
        /\ CountedRoot(r) =>
             /\ DOMAIN Unwrap(call[r].cache_hit) = {"Query"}
             /\ Recorded(r, "Query") =
                  IF IsSome(call[r].forwarded)
                  THEN [hit |-> 0, miss |-> 1] ELSE [hit |-> 1, miss |-> 0]

\* two Products and a User were asked for: one Product came from the cache,
\* the other was forwarded
C30_Witness ==
    \E r \in Reqs :
        /\ CountedEntities(r)
        /\ Len(Representations(r)) = 3
        /\ Recorded(r, "Product") = [hit |-> 1, miss |-> 1]
        /\ Recorded(r, "User").miss = 1

\* C31: a payload stored from a private response for one user is never taken
\* from the cache for a request of another user, or of nobody: an entry the
\* store gave a call that is private and usable was written for the user id
\* of that call
C31_PrivateEntriesStayWithTheirUser ==
    \A r \in Reqs : \A i \in 1..Len(call[r].got) :
        (Usable(call[r].got[i]) /\ IsPrivate(Unwrap(call[r].got[i]).control)) =>
            /\ IsSome(PrivateId(r))
            /\ Unwrap(call[r].got[i]).by.fingerprint.private_id = PrivateId(r)

\* a private entry written for one user is in the store while another user's
\* request for the same data has read the store and found nothing
C31_Witness ==
    \E r \in Reqs : \E k \in DOMAIN store :
        /\ call[r].pc = "call_root"
        /\ call[r].reads = 1
        /\ call[r].got = <<None>>
        /\ IsSome(PrivateId(r))
        /\ IsPrivate(store[k].control)
        /\ CanUse(store[k].control)
        /\ store[k].by.fingerprint.private_id # PrivateId(r)
        /\ store[k].by.fingerprint.subgraph_name = Req(r).subgraph_name
        /\ store[k].by.fingerprint.query_hash = Req(r).query_hash

\* the query of call r was in the registry when the call read it, and the
\* context of its request holds no user id
KnownPrivateWithoutUser(r) ==
    /\ call[r].pc # "idle"
    /\ call[r].is_known_private
    /\ Unwrap(private_id_key) \notin DOMAIN Req(r).context

\* C32: a request whose query is in the private-query registry and that
\* carries no user id is forwarded to the subgraph once, reads nothing from
\* the store, schedules no write, and gets the subgraph response as it came
C32_KnownPrivateWithoutUserBypasses ==
    \A r \in Reqs :
        KnownPrivateWithoutUser(r) =>
            /\ call[r].reads = 0
            /\ call[r].written = None
            /\ call[r].got = <<>>
            /\ call[r].pc \in {"call_bypass", "done"}
            /\ call[r].pc = "call_bypass" => call[r].calls = 0
            /\ call[r].pc = "done" =>
                 /\ call[r].calls = 1
                 /\ call[r].forwarded = Some(Req(r).body)
                 /\ Unwrap(call[r].response).kind = "ok"
                 /\ Unwrap(call[r].response).headers = Unwrap(call[r].upstream).headers
                 /\ Unwrap(call[r].response).data = Unwrap(call[r].upstream).data
                 /\ Unwrap(call[r].response).errors = Unwrap(call[r].upstream).errors
                 /\ Unwrap(call[r].response).extensions
                      = Unwrap(call[r].upstream).extensions

\* such a request got its response, a storable one with data, while the
\* store holds an entry
C32_Witness ==
    \E r \in Reqs :
        /\ KnownPrivateWithoutUser(r)
        /\ call[r].pc = "done"
        /\ IsSome(Unwrap(call[r].upstream).data)
        /\ Unwrap(call[r].upstream).errors = <<>>
        /\ IsSome(Unwrap(call[r].upstream).headers)
        /\ ~Unwrap(Unwrap(call[r].upstream).headers).no_store
        /\ store # EmptyObject

\* call r ended with the MalformedRequest error of request validation
FailedValidation(r) ==
    /\ call[r].pc = "done"
    /\ Unwrap(call[r].response).kind = "MalformedRequest"

\* call r ended with a response made of cache entries alone
ServedFromCache(r) ==
    /\ call[r].pc = "done"
    /\ Unwrap(call[r].response).kind = "ok"
    /\ call[r].reads = 1
    /\ call[r].forwarded = None

\* C33: a call goes to the subgraph at most once; a write it schedules comes
\* after the subgraph response, which it reflects (the response had a
\* Cache-Control header, and what is written is private when the header is);
\* a call served from the cache, or failed by request validation, has gone
\* to the subgraph not at all and schedules no write
C33_OneCallThenTheWrite ==
    \A r \in Reqs :
        /\ call[r].calls <= 1
        /\ IsSome(call[r].written) =>
             /\ call[r].calls = 1
             /\ IsSome(call[r].upstream)
             /\ IsSome(Unwrap(call[r].upstream).headers)
             /\ \A i \in 1..Len(Unwrap(call[r].written).items) :
                  Unwrap(Unwrap(call[r].upstream).headers).private
                     => Unwrap(call[r].written).items[i].control.private
        /\ (ServedFromCache(r) \/ FailedValidation(r)) =>
             /\ call[r].calls = 0
             /\ call[r].upstream = None
             /\ call[r].written = None

\* a call served from the cache alone
C33_Witness == \E r \in Reqs : ServedFromCache(r) /\ call[r].got # <<>>

\* call r holds a guard of the registry lock
HoldsGuard(r) == r \in registry_lock.readers \/ registry_lock.writer = Some(r)

\* call r has put its query in the registry
Classified(r) ==
    /\ call[r].pc = "done"
    /\ call[r].path = "locking"
    /\ call[r].calls = 1
    /\ ~call[r].is_known_private
    /\ IsSome(Unwrap(call[r].upstream).headers)
    /\ Unwrap(Unwrap(call[r].upstream).headers).private

\* C34: no call holds a guard of the registry lock while a store call or a
\* subgraph call of its own is pending: a guard is held only between taking
\* it and the contains or the insert it was taken for, so whoever waits for
\* the lock waits for a call that needs nothing to drop it; and the calls
\* that classified the same query leave it in the registry once
C34_RegistryLockNeverHeldAcrossCalls ==
    /\ \A r \in Reqs :
         /\ call[r].pc \in {"store_call", "subgraph_call"} => ~HoldsGuard(r)
         /\ r \in registry_lock.readers => call[r].pc = "read_held"
         /\ registry_lock.writer = Some(r) => call[r].pc = "write_held"
         /\ (call[r].pc = "read_lock" /\ ~ENABLED AwaitRead(r)) =>
               \E q \in Reqs : ENABLED Insert(q)
         /\ (call[r].pc = "write_lock" /\ ~ENABLED AwaitWrite(r)) =>
               \E q \in Reqs : ENABLED Insert(q) \/ ENABLED Contains(q)
         /\ Classified(r) =>
               Cardinality({q \in private_queries : q = Req(r).query}) = 1
    /\ ~(registry_lock.readers # {} /\ registry_lock.writer # None)

\* two calls classified the same query, each with its own insert
C34_Witness ==
    \E r \in Reqs : \E q \in Reqs \ {r} :
        /\ Classified(r)
        /\ call[q].pc = "write_held"
        /\ Req(q).query = Req(r).query

\* the ways call_inner ends: Ok(response), or Err of one of its errors
TerminalKinds == {"ok", "MalformedRequest", "MalformedResponse", "InvalidHeader"}

\* the order of the states of a call: the keys and the read of the store,
\* then the answer from the hits or the subgraph call with merge and write
StateOrder ==
    {<<"idle", "lookup_root">>, <<"idle", "lookup_entities">>,
     <<"idle", "call_bypass">>, <<"idle", "call_other">>,
     <<"lookup_root", "done">>, <<"lookup_root", "call_root">>,
     <<"lookup_entities", "done">>, <<"lookup_entities", "call_entities">>,
     <<"call_root", "done">>, <<"call_entities", "done">>,
     <<"call_bypass", "done">>, <<"call_other", "done">>, <<"done", "idle">>}

\* C35: the store and the subgraph answering every call, every request that
\* enters call_inner ends, with a response or with an error and in no other
\* way, its states in the order keys, store read, then either the answer
\* from the hits or the subgraph call, the merge and the write
C35_EveryCallRespondsOrFails ==
    /\ [](\A r \in Reqs :
            call[r].pc = "done" =>
                /\ Unwrap(call[r].response).kind \in TerminalKinds
                /\ IsSome(call[r].written) => (call[r].reads = 1 /\ call[r].calls = 1)
                /\ call[r].calls = 1 =>
                     (call[r].reads = 1 \/ call[r].path \in {"call_bypass", "call_other"}))
    /\ [][\A r \in Reqs :
            call'[r].pc # call[r].pc => <<call[r].pc, call'[r].pc>> \in StateOrder]_vars
    /\ \A r \in Reqs : (call[r].pc \notin {"idle", "done"}) ~> (call[r].pc = "done")

\* C36: the merge of the entity path loses no upstream error: an error that
\* points at the residual index of a miss is in the merged response with the
\* index of that entity, and every other upstream error (without path, with
\* a path that does not begin with _entities, or pointing at an index no
\* miss has) is in the merged response as it came
C36_MergeKeepsEveryError ==
    \A r \in Reqs :
        (ReturnedMerged(r) /\ call[r].calls = 1) =>
            \A n \in 1..Len(Unwrap(call[r].upstream).errors) :
                LET error == Unwrap(call[r].upstream).errors[n]
                    pointed == {k \in 0..(Cardinality(Misses(r)) - 1) : PointsAt(error, k)}
                IN  /\ \A k \in pointed :
                         InSeq(Rewritten(error, MissAt(r, k) - 1),
                               Unwrap(call[r].response).errors)
                    /\ pointed = {} => InSeq(error, Unwrap(call[r].response).errors)

\* ------------------------------------------------- scheduling comparisons
\* BothModeComparisonJob::schedule: the job is sent or dropped, the caller
\* moves on either way
schedule ==
    /\ QUEUE.scheduled < MaxJobs
    /\ LET job == QUEUE.scheduled + 1
           sent == try_send(QUEUE.channel, job)
       IN  QUEUE' = [QUEUE EXCEPT
                       !.channel = sent.channel,
                       !.scheduled = job,
                       !.accepted = IF sent.ok THEN Append(@, job) ELSE @,
                       !.dropped = IF sent.ok THEN @ ELSE @ \cup {job}]
    /\ UNCHANGED <<store, private_queries, pending, started, call, context_control, plugin,
                   registry_lock, compared>>

\* the worker thread takes the next job of the channel
Receive ==
    /\ QUEUE.executing = None
    /\ QUEUE.channel # <<>>
    /\ QUEUE' = [QUEUE EXCEPT !.channel = Tail(@), !.executing = Some(Head(QUEUE.channel))]
    /\ UNCHANGED <<store, private_queries, pending, started, call, context_control, plugin,
                   registry_lock, compared>>

\* BothModeComparisonJob::execute returns: both plans made and compared
execute ==
    /\ QUEUE.executing # None
    /\ QUEUE' = [QUEUE EXCEPT !.executing = None,
                              !.executed = Append(@, Unwrap(QUEUE.executing))]
    /\ UNCHANGED <<store, private_queries, pending, started, call, context_control, plugin,
                   registry_lock, compared>>

SchedulingNext ==
    \/ schedule
    \/ Receive
    \/ execute

Scheduling == Init /\ [][SchedulingNext]_vars

\* the jobs taken from the channel so far, in the order they were taken
Taken == QUEUE.executed \o (IF QUEUE.executing = None THEN <<>> ELSE <<Unwrap(QUEUE.executing)>>)

\* a step of schedule: one more job is counted
Scheduled == QUEUE'.scheduled = QUEUE.scheduled + 1

\* C37: schedule never blocks its caller: at most QUEUE_SIZE (10) jobs are
\* queued at any time, a job scheduled while 10 are queued is dropped (and
\* only such a job: any other is queued behind those waiting), and the one
\* worker executes the accepted jobs one at a time in the order they were
\* accepted
C37_BoundedQueueInOrder ==
    /\ [](/\ Len(QUEUE.channel) <= QUEUE_SIZE
          /\ \A job \in 1..QUEUE.scheduled :
               job \notin QUEUE.dropped <=> InSeq(job, QUEUE.accepted)
          /\ Taken \o QUEUE.channel = QUEUE.accepted
          /\ \A i, j \in 1..Len(QUEUE.accepted) :
               i < j => QUEUE.accepted[i] < QUEUE.accepted[j])
    /\ [][Scheduled =>
            IF Len(QUEUE.channel) = QUEUE_SIZE
            THEN /\ QUEUE'.dropped = QUEUE.dropped \cup {QUEUE'.scheduled}
                 /\ QUEUE'.channel = QUEUE.channel
            ELSE /\ QUEUE'.dropped = QUEUE.dropped
                 /\ QUEUE'.channel = Append(QUEUE.channel, QUEUE'.scheduled)]_vars
    /\ [][~Scheduled =>
            \/ /\ QUEUE.executing = None
               /\ QUEUE.channel # <<>>
               /\ QUEUE'.executing = Some(Head(QUEUE.channel))
               /\ QUEUE'.executed = QUEUE.executed
            \/ /\ QUEUE.executing # None
               /\ QUEUE'.executing = None
               /\ QUEUE'.executed = Append(QUEUE.executed, Unwrap(QUEUE.executing))
               /\ QUEUE'.channel = QUEUE.channel]_vars

\* a job was dropped from a full channel, earlier jobs have been executed, the
\* channel is full again and the worker is busy
C37_Witness ==
    /\ QUEUE.dropped # {}
    /\ Len(QUEUE.channel) = QUEUE_SIZE
    /\ Len(QUEUE.executed) >= 1
    /\ QUEUE.executing # None

\* ------------------------------------------------- comparing two documents
\* two documents are handed to same_ast_document
ComparisonInit ==
    /\ store = EmptyObject
    /\ private_queries = {}
    /\ pending = {}
    /\ started = 0
    /\ call = [r \in Reqs |-> Idle]
    /\ context_control = Untracked
    /\ plugin = Running
    /\ registry_lock = Unlocked
    /\ QUEUE = queue
    /\ \E x \in Documents, y \in Documents : compared = [x |-> x, y |-> y, result |-> None]

Compare ==
    /\ compared # None
    /\ compared.result = None
    /\ compared' = [compared EXCEPT !.result = Some(same_ast_document(compared.x, compared.y))]
    /\ UNCHANGED <<store, private_queries, pending, started, call, context_control, plugin,
                   registry_lock, QUEUE>>

ComparisonNext == Compare

Comparison == ComparisonInit /\ [][ComparisonNext]_vars

\* same_ast_document has answered
Compared == compared # None /\ compared.result # None

\* v is a reordering of u
IsPermutation(u, v) ==
    /\ Len(u) = Len(v)
    /\ \A i \in 1..Len(u) :
         Cardinality({j \in 1..Len(u) : u[j] = u[i]}) = Cardinality({j \in 1..Len(v) : v[j] = u[i]})

\* both documents have the same number of definitions, begin with an
\* operation, and are equal after it
AlikeAfterTheOperation(x, y) ==
    /\ Len(x.definitions) = Len(y.definitions)
    /\ Len(x.definitions) >= 1
    /\ x.definitions[1].kind = "operation"
    /\ y.definitions[1].kind = "operation"
    /\ \A i \in 2..Len(x.definitions) : x.definitions[i] = y.definitions[i]

\* C38: two operations that differ only in the order of their variable
\* declarations compare equal: for any permutation of the variable definitions
\* of an operation, same_ast_document returns true
C38_VariableOrderIsIgnored ==
    Compared =>
        LET x == compared.x
            y == compared.y
        IN  (/\ AlikeAfterTheOperation(x, y)
             /\ IsPermutation(x.definitions[1].variables, y.definitions[1].variables)
             /\ y.definitions[1] =
                  [x.definitions[1] EXCEPT !.variables = y.definitions[1].variables])
            => compared.result = Some(TRUE)

\* ($qv2, $qv1) against ($qv1, $qv2), all else equal, compared equal
C38_Witness ==
    /\ Compared
    /\ AlikeAfterTheOperation(compared.x, compared.y)
    /\ Len(compared.x.definitions[1].variables) = 2
    /\ compared.x.definitions[1].variables # compared.y.definitions[1].variables
    /\ compared.y.definitions[1] =
         [compared.x.definitions[1] EXCEPT !.variables = compared.y.definitions[1].variables]
    /\ compared.result = Some(TRUE)

\* the selection set is one `_entities` field
SingleEntitiesField(selection_set) ==
    Len(selection_set) = 1 /\ selection_set[1].name = ENTITIES_QUERY

\* C39: the order of the selections directly under a single top-level
\* `_entities` field is ignored (any permutation of them compares equal); the
\* order is not ignored elsewhere: two operations whose top-level selection
\* sets are the same selections in a different order compare unequal
C39_OnlyEntitiesSelectionsReorder ==
    Compared =>
        LET x == compared.x
            y == compared.y
            xs == x.definitions[1].selection_set
            ys == y.definitions[1].selection_set
        IN  /\ (/\ AlikeAfterTheOperation(x, y)
                /\ SingleEntitiesField(xs)
                /\ SingleEntitiesField(ys)
                /\ IsPermutation(xs[1].selection_set, ys[1].selection_set)
                /\ y.definitions[1] = [x.definitions[1] EXCEPT !.selection_set = ys])
               => compared.result = Some(TRUE)
            /\ (/\ AlikeAfterTheOperation(x, y)
                /\ IsPermutation(xs, ys)
                /\ xs # ys)
               => compared.result = Some(FALSE)

\* _entities { x { w } y } against _entities { y x { w } } compared equal
C39_Witness ==
    /\ Compared
    /\ AlikeAfterTheOperation(compared.x, compared.y)
    /\ SingleEntitiesField(compared.x.definitions[1].selection_set)
    /\ SingleEntitiesField(compared.y.definitions[1].selection_set)
    /\ compared.x.definitions[1].selection_set # compared.y.definitions[1].selection_set
    /\ IsPermutation(compared.x.definitions[1].selection_set[1].selection_set,
                     compared.y.definitions[1].selection_set[1].selection_set)
    /\ compared.result = Some(TRUE)

\* C40: two documents with a different number of definitions compare unequal:
\* a document is never reported equal to a proper prefix of itself or to the
\* empty document
C40_DifferentLengthsCompareUnequal ==
    (Compared /\ Len(compared.x.definitions) # Len(compared.y.definitions))
        => compared.result = Some(FALSE)

====
